---- MODULE Spec2Model ----
(***************************************************************************)
(* A model of json2sql/engine.py, class JSON2SQLGenerator: the registry    *)
(* built by __init__, and generate_sql with the helpers it calls.          *)
(*                                                                         *)
(* Representation.                                                         *)
(*   - SQL text is a sequence of tokens (strings); blanks are left out.    *)
(*   - A caller-supplied value (a Python str) is a sequence of chunks: a   *)
(*     chunk is one character ("a", "1", "'", "\\") or a word without      *)
(*     special characters ("TRUE", "2020-01-02").                          *)
(*   - A Python dict with optional keys is a record with a field `keys`    *)
(*     holding the keys that are present.                                  *)
(*   - A raised exception is a result record with ok = FALSE.              *)
(***************************************************************************)
EXTENDS Integers, Sequences, FiniteSets, TLC

VARIABLES
    base_table,          \* self.base_table
    field_mapping,       \* self.field_mapping
    path_mapping,        \* self.path_mapping (a defaultdict(dict))
    custom_methods,      \* self.custom_methods
    subquery_mapping,    \* self.subquery_mapping
    variable_templates,  \* self.variable_templates
    constructed,         \* the five registry tables as __init__ left them
    init,                \* the dict handed to __init__, and how __init__ ended
    request,             \* per caller thread: the dict passed as `data`
    args,                \* per caller thread: base_table argument and options
    stack,               \* per caller thread: the generate_sql frames, innermost last
    results              \* per caller thread: outcomes of the calls made with `request`

vars == <<base_table, field_mapping, path_mapping, custom_methods, subquery_mapping,
          variable_templates, constructed, init, request, args, stack, results>>

registry == <<field_mapping, path_mapping, custom_methods, subquery_mapping,
              variable_templates>>

(***************************************************************************)
(* Bounds of the model.                                                    *)
(***************************************************************************)
MaxPaths == 3       \* rows of `paths` handed to __init__
MaxFields == 2      \* entries of a request's `fields` list
MaxValueLen == 2    \* chunks of a caller-supplied value

(***************************************************************************)
(* Class constants.                                                        *)
(***************************************************************************)
WHERE_CONDITION == "where"
CUSTOM_METHOD_CONDITION == "custom_method"
QUESTIONNAIRE_CONDITION == "questionnaire"
AND_CONDITION == "and"
OR_CONDITION == "or"
NOT_CONDITION == "not"

INTEGER == "integer"
STRING_TYPE == "string"
DATE == "date"
DATE_TIME == "datetime"
BOOLEAN_TYPE == "boolean"
CHOICE == "choice"
MULTICHOICE == "multichoice"

CONVERSION_REQUIRED == {STRING_TYPE, DATE, DATE_TIME}

TRUE_VALUE == "TRUE"
FALSE_VALUE == "FALSE"

BETWEEN == "between"
BINARY_OPERATORS == {BETWEEN}

ALLOWED_AGGREGATE_FUNCTIONS == {"MIN", "MAX", "COUNT"}

IS_OPERATOR_VALUES_FOR_STRING == {<<"EMPTY">>, <<"NOT EMPTY">>}
IS_OPERATOR_VALUE == {<<"NULL">>, <<"NOT NULL">>, <<TRUE_VALUE>>, <<FALSE_VALUE>>}
IS_PRESENT_OPERATOR_VALUE == {<<TRUE_VALUE>>, <<FALSE_VALUE>>}

STARTS_WITH == "starts_with"
ENDS_WITH == "ends_with"
HAS_SUBSTRING == "has_substring"
LIKE_OPERATORS == {STARTS_WITH, ENDS_WITH, HAS_SUBSTRING}

\* The namedtuple VALUE_OPERATORS: attribute name |-> SQL operator.
VALUE_OPERATORS ==
    [equals |-> "=", greater_than |-> ">", less_than |-> "<",
     greater_than_equals |-> ">=", less_than_equals |-> "<=",
     not_equals |-> "<>", is_op |-> "IS", in_op |-> "IN", like |-> "LIKE",
     between |-> BETWEEN,
     is_challenge_completed |-> "is_challenge_completed",
     is_challenge_not_completed |-> "is_challenge_not_completed",
     starts_with |-> "LIKE", ends_with |-> "LIKE", has_substring |-> "LIKE",
     verifies_regex |-> "REGEXP", is_present |-> "is_present"]

(***************************************************************************)
(* Python strings.                                                         *)
(***************************************************************************)
Quote == "'"
Backslash == "\\"
Backtick == "[bq]"    \* the backtick character

\* str.upper() on the words the model uses.
Upper(s) ==
    CASE s = "max" -> "MAX"
      [] s = "min" -> "MIN"
      [] s = "count" -> "COUNT"
      [] s = "sum" -> "SUM"
      [] s = "true" -> "TRUE"
      [] s = "false" -> "FALSE"
      [] s = "null" -> "NULL"
      [] s = "a" -> "A"
      [] OTHER -> s

\* str.lower() on the operator names the model uses.
Lower(s) ==
    CASE s = "EQUALS" -> "equals"
      [] s = "Between" -> "between"
      [] OTHER -> s

UpperValue(v) == [i \in 1..Len(v) |-> Upper(v[i])]

\* int(value) succeeds (no ValueError) on a str of decimal digits.
Digits == {"0", "1", "2"}
ParsesAsInt(v) == Len(v) > 0 /\ \A i \in 1..Len(v) : v[i] \in Digits

\* datetime.strptime(value, Y-m-d) succeeds.
DateWords == {"2020-01-02"}
ParsesAsDate(v) == Len(v) = 1 /\ v[1] \in DateWords

\* datetime.strptime(value, Y-m-dTH:M:S) succeeds.
DateTimeWords == {"2020-01-02T03:04:05"}
ParsesAsDateTime(v) == Len(v) = 1 /\ v[1] \in DateTimeWords

\* A dict as TLA+ function: d[k] = v added to d.
DictSet(d, k, v) == [x \in (DOMAIN d) \cup {k} |-> IF x = k THEN v ELSE d[x]]
EmptyDict == <<>>

(***************************************************************************)
(* Results of a Python call: a value, or a raised exception.               *)
(***************************************************************************)
Ok(sql) == [ok |-> TRUE, sql |-> sql, err |-> ""]
Raise(e) == [ok |-> FALSE, sql |-> <<>>, err |-> e]

\* A Python value that is None or a str.
PyNone == [none |-> TRUE, s |-> <<>>]
PyStr(s) == [none |-> FALSE, s |-> s]
Truthy(v) == ~v.none /\ Len(v.s) > 0
\* '{value}'.format(value=v)
Text(v) == IF v.none THEN <<"None">> ELSE v.s

(***************************************************************************)
(* Value renderer.                                                         *)
(***************************************************************************)
RECURSIVE _sql_injection_proof(_)
_sql_injection_proof(value) ==
    IF value = <<>> THEN <<>>
    ELSE (IF Head(value) \in {Quote, Backslash}
          THEN <<Backslash, Head(value)>>
          ELSE <<Head(value)>>) \o _sql_injection_proof(Tail(value))

\* The exception _sanitize_value raises, "" when it returns.
_sanitize_value(value, data_type) ==
    IF data_type = INTEGER
    THEN (IF ParsesAsInt(value) THEN "" ELSE "ValueError")
    ELSE IF data_type = DATE
    THEN (IF ParsesAsDate(value) THEN "" ELSE "ValueError")
    ELSE IF data_type = DATE_TIME
    THEN (IF ParsesAsDateTime(value) \/ ParsesAsDate(value) THEN "" ELSE "ValueError")
    ELSE ""

\* Returns [err, val]: the exception raised ("" when none) and the value returned.
_validate_sql_values(value, data_type) ==
    IF Truthy(value)
    THEN LET e == _sanitize_value(value.s, data_type)
         IN  IF e # "" THEN [err |-> e, val |-> value]
             ELSE IF data_type = STRING_TYPE
             THEN [err |-> "", val |-> PyStr(_sql_injection_proof(value.s))]
             ELSE [err |-> "", val |-> value]
    ELSE [err |-> "", val |-> value]

\* _convert_values([value], data_type), the one element it yields.
_convert_values(value, data_type) ==
    IF data_type \in {CHOICE, MULTICHOICE}
    THEN (IF value.none THEN Raise("TypeError")
          ELSE IF ParsesAsInt(value.s) THEN Ok(Text(value))
          ELSE Ok(<<Quote>> \o Text(value) \o <<Quote>>))
    ELSE IF data_type \in CONVERSION_REQUIRED
    THEN Ok(<<Quote>> \o Text(value) \o <<Quote>>)
    ELSE Ok(Text(value))

_get_sql_value(value, data_type) ==
    LET v == _validate_sql_values(value, data_type)
    IN  IF v.err # "" THEN Raise(v.err)
        ELSE _convert_values(v.val, data_type)

(***************************************************************************)
(* Predicate evaluator: the where leaf.                                    *)
(***************************************************************************)
_get_table_name(field) == field_mapping[field].table_name
_get_data_type(field) == field_mapping[field].data_type

\* `table`.`field`
ColumnRef(table, field) == <<Backtick, table, Backtick, ".", Backtick, field, Backtick>>

CHALLENGE_CHECK_QUERY(value) ==
    <<"EXISTS", "(", "SELECT", "1", "FROM", "journeys_memberstagechallenge", "WHERE",
      "challenge_id", "=">> \o value \o
    <<"AND", "completed_date", "IS", "NOT", "NULL", "AND", "member_id", "=",
      "patients_member.id", ")">>

\* The exception _get_validated_data raises, "" when it returns.
_get_validated_data(where) ==
    IF ~({"operator", "value", "field"} \subseteq where.keys) THEN "KeyError"
    ELSE IF Lower(where.operator) \in BINARY_OPERATORS
            /\ ~("secondary_value" \in where.keys /\ Len(where.secondary_value) > 0)
    THEN "ValueError"
    ELSE ""

\* str.strip of the quote character
RECURSIVE StripQuotes(_)
StripQuotes(v) ==
    IF v # <<>> /\ Head(v) = Quote THEN StripQuotes(Tail(v))
    ELSE IF v # <<>> /\ v[Len(v)] = Quote THEN StripQuotes(SubSeq(v, 1, Len(v) - 1))
    ELSE v

\* A dict of dicts kept as the sequence of its items: its keys, and the item
\* under key k.
ItemKeys(items) == {items[i].key : i \in 1..Len(items)}
ItemOf(items, k) == items[CHOOSE i \in 1..Len(items) : items[i].key = k]

\* Lines 733-748: [err, field_name, table, data_type] of the leaf's column.
ResolveColumn(where) ==
    IF "subquery" \in where.keys
    THEN IF where.subquery \notin DOMAIN subquery_mapping
         THEN [err |-> "KeyError", field_name |-> "", table |-> "", data_type |-> ""]
         ELSE LET select_fields == subquery_mapping[where.subquery].subquery_fields
              IN  IF where.field \notin ItemKeys(select_fields)
                  THEN [err |-> "AttributeError", field_name |-> "", table |-> "",
                        data_type |-> ""]
                  ELSE [err |-> "",
                        field_name |-> ItemOf(select_fields, where.field).alias,
                        table |-> IF "alias" \in where.keys THEN where.alias ELSE "None",
                        data_type |-> ItemOf(select_fields, where.field).data_type]
    ELSE IF where.field \notin DOMAIN field_mapping
         THEN [err |-> "KeyError", field_name |-> "", table |-> "", data_type |-> ""]
         ELSE [err |-> "",
               field_name |-> field_mapping[where.field].field_name,
               table |-> _get_table_name(where.field),
               data_type |-> _get_data_type(where.field)]

\* The left-hand side if a function name outside ALLOWED_AGGREGATE_FUNCTIONS
\* were applied like an allowed one.
AggregateLhsAny(where, lhs) ==
    IF "aggregate_lhs" \in where.keys /\ where.aggregate_lhs # ""
    THEN <<Upper(where.aggregate_lhs), "(">> \o lhs \o <<")">>
    ELSE lhs

\* Lines 782-788: the left-hand side with the aggregate function applied.
AggregateLhs(where, lhs) ==
    IF "aggregate_lhs" \in where.keys /\ where.aggregate_lhs # ""
    THEN LET aggregate_func_name == Upper(where.aggregate_lhs)
         IN  IF aggregate_func_name \in ALLOWED_AGGREGATE_FUNCTIONS
             THEN <<aggregate_func_name, "(">> \o lhs \o <<")">>
             ELSE lhs
    ELSE lhs

\* Lines 790-826: the phrase, given the SQL operator, the rendered values and the lhs.
WherePhrase(sql_operator, data_type, lhs, sql_value, secondary_sql_value) ==
    IF sql_operator \in {VALUE_OPERATORS.is_challenge_completed,
                         VALUE_OPERATORS.is_challenge_not_completed}
    THEN Ok((IF sql_operator = VALUE_OPERATORS.is_challenge_not_completed
             THEN <<"NOT">> ELSE <<>>) \o CHALLENGE_CHECK_QUERY(sql_value))
    ELSE IF sql_operator = VALUE_OPERATORS.is_present
    THEN LET upper == UpperValue(sql_value)
             value_in_upper_case == IF data_type = CHOICE THEN StripQuotes(upper) ELSE upper
             is_present == value_in_upper_case = <<TRUE_VALUE>>
         IN  IF value_in_upper_case \notin IS_PRESENT_OPERATOR_VALUE
             THEN Raise("AssertionError")
             ELSE Ok(lhs \o <<"IS">> \o (IF is_present THEN <<"NOT">> ELSE <<>>)
                     \o <<"NULL", IF is_present THEN AND_CONDITION ELSE OR_CONDITION>>
                     \o lhs \o <<IF is_present THEN "!=" ELSE "=", Quote, Quote>>)
    ELSE IF sql_operator = BETWEEN
    THEN Ok(lhs \o <<sql_operator>> \o sql_value \o <<"AND">> \o secondary_sql_value)
    ELSE Ok(lhs \o <<sql_operator>> \o sql_value)

_generate_where_phrase(where) ==
    LET e == _get_validated_data(where)
        operator == Lower(where.operator)
        value == where.value
        secondary_value == IF "secondary_value" \in where.keys
                           THEN PyStr(where.secondary_value) ELSE PyNone
    IN
    IF e # "" THEN Raise(e)
    ELSE IF operator \notin DOMAIN VALUE_OPERATORS THEN Raise("AttributeError")
    ELSE
    LET sql_operator == VALUE_OPERATORS[operator]
        col == ResolveColumn(where)
        data_type == col.data_type
        lhs == AggregateLhs(where, ColumnRef(col.table, col.field_name))
    IN
    IF col.err # "" THEN Raise(col.err)
    ELSE IF sql_operator = VALUE_OPERATORS.is_op
    THEN LET value_in_upper_case == UpperValue(value)
         IN  IF data_type = STRING_TYPE
             THEN IF value_in_upper_case \notin IS_OPERATOR_VALUES_FOR_STRING
                  THEN Raise("AssertionError")
                  ELSE WherePhrase(IF value_in_upper_case = <<"NOT EMPTY">>
                                   THEN VALUE_OPERATORS.not_equals
                                   ELSE VALUE_OPERATORS.equals,
                                   data_type, lhs, <<Quote, Quote>>, <<"None">>)
             ELSE IF value_in_upper_case \notin IS_OPERATOR_VALUE
                  THEN Raise("AssertionError")
                  ELSE WherePhrase(sql_operator, data_type, lhs, value, <<"None">>)
    ELSE
    LET like_value ==
            IF data_type = STRING_TYPE /\ operator \in LIKE_OPERATORS
            THEN IF operator = STARTS_WITH THEN value \o <<"%", "%">>
                 ELSE IF operator = ENDS_WITH THEN <<"%", "%">> \o value
                 ELSE <<"%", "%">> \o value \o <<"%", "%">>
            ELSE value
        sql_value == _get_sql_value(PyStr(like_value), data_type)
        secondary_sql_value == _get_sql_value(secondary_value, data_type)
    IN  IF ~sql_value.ok THEN sql_value
        ELSE IF ~secondary_sql_value.ok THEN secondary_sql_value
        ELSE WherePhrase(sql_operator, data_type, lhs, sql_value.sql,
                         secondary_sql_value.sql)

(***************************************************************************)
(* Template binder.  A template is a sequence of tokens; the placeholder   *)
(* {x} is the token "{x}".  A parameter schema is a dict name |-> data     *)
(* type; supplied parameters are a dict name |-> [keys, value, field].     *)
(***************************************************************************)
ALLOWED_CUSTOM_METHOD_PARAM_TYPES ==
    {"field", "integer", "string", "date", "operator", "boolean", "variable_template"}

\* re.findall(TEMPLATE_KEY_REGEX, template): the placeholder names.
PlaceholderName == [tok \in {"{x}", "{y}"} |-> IF tok = "{x}" THEN "x" ELSE "y"]
Placeholders(template) ==
    {PlaceholderName[template[i]] : i \in {j \in 1..Len(template) :
                                               template[j] \in DOMAIN PlaceholderName}}

\* str(int(value)) for a value of decimal digits: leading zeros are dropped.
RECURSIVE IntText(_)
IntText(value) ==
    IF Len(value) > 1 /\ Head(value) = "0" THEN IntText(Tail(value)) ELSE value

\* [ok, sql, err, none]: none is TRUE when the method returns None.
_process_parameter(data_type, parameter_data) ==
    LET value == IF "value" \in parameter_data.keys THEN parameter_data.value ELSE <<>>
        Returns(sql) == [ok |-> TRUE, sql |-> sql, err |-> "", none |-> FALSE]
        Raises(e) == [ok |-> FALSE, sql |-> <<>>, err |-> e, none |-> FALSE]
        e == IF data_type # "date" THEN _sanitize_value(value, data_type) ELSE ""
    IN  IF value = <<>> THEN [ok |-> TRUE, sql |-> <<"None">>, err |-> "", none |-> TRUE]
        ELSE IF e # "" THEN Raises(e)
        ELSE IF data_type = "field"
        THEN IF "field" \notin parameter_data.keys
                \/ parameter_data.field \notin DOMAIN field_mapping
             THEN Raises("KeyError")
             ELSE Returns(ColumnRef(field_mapping[parameter_data.field].table_name,
                                    field_mapping[parameter_data.field].field_name))
        ELSE IF data_type = "integer" THEN Returns(IntText(value))
        ELSE IF data_type = "string"
        THEN Returns(<<Quote>> \o _sql_injection_proof(value) \o <<Quote>>)
        ELSE IF data_type = "date"
        THEN LET r == _get_sql_value(PyStr(value), data_type)
             IN  IF r.ok THEN Returns(r.sql) ELSE Raises(r.err)
        ELSE IF data_type = "operator"
        THEN IF Len(value) = 1 /\ value[1] \in DOMAIN VALUE_OPERATORS
             THEN Returns(<<VALUE_OPERATORS[value[1]]>>)
             ELSE Raises("AttributeError")
        ELSE IF data_type = "boolean"
        THEN IF UpperValue(value) \in IS_OPERATOR_VALUE
             THEN Returns(UpperValue(value))
             ELSE Raises("AssertionError")
        ELSE IF data_type = "variable_template"
        THEN Returns(<<"{">> \o _sql_injection_proof(value) \o <<"}">>)
        ELSE Raises("AttributeError")

\* The loop over the supplied parameters: [ok, err, bound] with bound the dict
\* validated_parameters (name |-> tokens).
RECURSIVE ProcessParameters(_, _, _)
ProcessParameters(schema, supplied, names) ==
    IF names = {} THEN [ok |-> TRUE, err |-> "", bound |-> EmptyDict]
    ELSE LET param_id == CHOOSE n \in names : TRUE
             rest == ProcessParameters(schema, supplied, names \ {param_id})
         IN  IF param_id \notin DOMAIN schema
             THEN [ok |-> FALSE, err |-> "AssertionError", bound |-> EmptyDict]
             ELSE LET r == _process_parameter(schema[param_id], supplied[param_id])
                  IN  IF ~r.ok THEN [ok |-> FALSE, err |-> r.err, bound |-> EmptyDict]
                      ELSE IF ~rest.ok THEN rest
                      ELSE [ok |-> TRUE, err |-> "",
                            bound |-> DictSet(rest.bound, param_id, r.sql)]

\* template.format(**validated_parameters)
RECURSIVE Format(_, _)
Format(template, bound) ==
    IF template = <<>> THEN Ok(<<>>)
    ELSE LET tok == Head(template)
             rest == Format(Tail(template), bound)
         IN  IF tok \in DOMAIN PlaceholderName
             THEN IF PlaceholderName[tok] \notin DOMAIN bound THEN Raise("KeyError")
                  ELSE IF ~rest.ok THEN rest
                  ELSE Ok(bound[PlaceholderName[tok]] \o rest.sql)
             ELSE IF ~rest.ok THEN rest ELSE Ok(<<tok>> \o rest.sql)

\* _parse_custom_method_condition if a parameter bound to None did not count
\* as supplied in the check of line 314.
ParseCustomMethodValued(data) ==
    IF "template_id" \notin data.keys THEN Raise("AssertionError")
    ELSE IF data.template_id \notin DOMAIN custom_methods THEN Raise("KeyError")
    ELSE LET template_data == custom_methods[data.template_id]
             supplied == IF "parameters" \in data.keys THEN data.parameters ELSE EmptyDict
             validated == ProcessParameters(template_data.parameters, supplied,
                                            DOMAIN supplied)
         IN  IF ~validated.ok THEN Raise(validated.err)
             ELSE IF (DOMAIN template_data.parameters)
                         # {n \in DOMAIN validated.bound : validated.bound[n] # <<"None">>}
             THEN Raise("AssertionError")
             ELSE Format(template_data.template_str, validated.bound)

\* _parse_custom_method_condition(data) for the payload of a custom_method or
\* questionnaire node, a dict [keys, template_id, parameters].
_parse_custom_method_condition(data) ==
    IF "template_id" \notin data.keys THEN Raise("AssertionError")
    ELSE IF data.template_id \notin DOMAIN custom_methods THEN Raise("KeyError")
    ELSE LET template_data == custom_methods[data.template_id]
             supplied == IF "parameters" \in data.keys THEN data.parameters ELSE EmptyDict
             validated == ProcessParameters(template_data.parameters, supplied,
                                            DOMAIN supplied)
         IN  IF ~validated.ok THEN Raise(validated.err)
             ELSE IF (DOMAIN template_data.parameters) # (DOMAIN validated.bound)
             THEN Raise("AssertionError")
             ELSE Format(template_data.template_str, validated.bound)

(***************************************************************************)
(* Predicate evaluator: compound nodes.  A node is the single-key dict     *)
(* {kind: payload}: `cond` is the payload of a where node (a dict),        *)
(* `children` the payload of an and/or/not node (a list).  kind "empty"    *)
(* is the empty dict {}.                                                   *)
(***************************************************************************)
NoCond == [keys |-> {}]
EmptyNode == [kind |-> "empty", cond |-> NoCond, children |-> <<>>]
WhereNode(c) == [kind |-> WHERE_CONDITION, cond |-> c, children |-> <<>>]
ListNode(k, ch) == [kind |-> k, cond |-> NoCond, children |-> ch]
CustomNode(k, d) == [kind |-> k, cond |-> d, children |-> <<>>]

RECURSIVE _parse_conditions(_, _)
RECURSIVE ParseFrom(_, _, _, _)

\* getattr(self, WHERE_CONDITION_MAPPING.get(key))(payload)
Dispatch(element) ==
    IF element.kind = WHERE_CONDITION THEN _generate_where_phrase(element.cond)
    ELSE IF element.kind \in {AND_CONDITION, OR_CONDITION, NOT_CONDITION}
    THEN _parse_conditions(element.kind, element.children)
    ELSE IF element.kind \in {CUSTOM_METHOD_CONDITION, QUESTIONNAIRE_CONDITION}
    THEN _parse_custom_method_condition(element.cond)
    ELSE IF element.kind = "exists" THEN Raise("NotImplementedError")
    ELSE Raise("TypeError")

\* The loop body of _parse_conditions if the operator word were written before
\* every element, the first included.
ParseAppendWord(condition, data, i, sql, result) ==
    IF ~result.ok THEN result
    ELSE ParseFrom(condition, data, i + 1,
                   sql \o <<condition, "(">> \o result.sql \o <<")">>)

\* Lines 1066-1071: `result` of element i is appended to the buffer `sql`.
ParseAppend(condition, data, i, sql, result) ==
    IF ~result.ok THEN result
    ELSE ParseFrom(condition, data, i + 1,
                   sql \o (IF sql = <<>> /\ condition \in {AND_CONDITION, OR_CONDITION}
                           THEN <<"(">> ELSE <<condition, "(">>)
                       \o result.sql \o <<")">>)

\* The loop of _parse_conditions from element i on, `sql` being the buffer so far.
ParseFrom(condition, data, i, sql) ==
    IF i > Len(data) THEN Ok(sql)
    ELSE ParseAppend(condition, data, i, sql, Dispatch(data[i]))

\* Line 1072: the buffer in parentheses.
Parenthesised(r) == IF ~r.ok THEN r ELSE Ok(<<"(">> \o r.sql \o <<")">>)

_parse_conditions(condition, data) == Parenthesised(ParseFrom(condition, data, 1, <<>>))

_parse_and(data) == _parse_conditions(AND_CONDITION, data)
_parse_or(data) == _parse_conditions(OR_CONDITION, data)
_parse_not(data) == _parse_conditions(NOT_CONDITION, data)

_generate_sql_condition(data) ==
    IF data.kind = "empty" THEN Ok(<<>>) ELSE Dispatch(data)

\* The values yielded: the payload of the key when the dict has it; the payload
\* of another key is searched only when it is a dict, and the payload of an
\* and/or/not key is a list.
extract_key_from_nested_dict(target_dict, key) ==
    IF target_dict.kind = "empty" THEN <<>>
    ELSE IF target_dict.kind = key THEN <<target_dict.cond>>
    ELSE <<>>

\* The exception validate_where_data raises, "" when it returns True.
validate_where_data(where_data) ==
    IF where_data.kind = "empty" THEN "AssertionError"
    ELSE LET conds == extract_key_from_nested_dict(where_data, WHERE_CONDITION)
         IN  IF \A i \in 1..Len(conds) :
                    "aggregate_lhs" \notin conds[i].keys \/ conds[i].aggregate_lhs = ""
             THEN "" ELSE "AssertionError"

\* An element of group_by_fields: the dict {'field': id} or, after generate_sql
\* has rewritten the list, the bare field id.
GroupByDict(id) == [py |-> "dict", val |-> id]
GroupById(id) == [py |-> "int", val |-> id]

\* cond.get('field') in group_by_fields
InGroupBy(cond, group_by_fields) ==
    /\ "field" \in cond.keys
    /\ \E i \in 1..Len(group_by_fields) :
           group_by_fields[i].py = "int" /\ group_by_fields[i].val = cond.field

\* The exception validate_group_by_data raises, "" when it returns True.
validate_group_by_data(group_by_fields, having) ==
    LET conds == extract_key_from_nested_dict(having, WHERE_CONDITION)
    IN  IF \A i \in 1..Len(conds) :
               "aggregate_lhs" \in conds[i].keys \/ InGroupBy(conds[i], group_by_fields)
        THEN "" ELSE "AssertionError"

\* ', '.join(parts)
RECURSIVE JoinComma(_)
JoinComma(parts) ==
    IF parts = <<>> THEN <<>>
    ELSE IF Len(parts) = 1 THEN parts[1]
    ELSE parts[1] \o <<",">> \o JoinComma(Tail(parts))

\* Lines 553-557: the GROUP BY list, with HAVING `condition` when having has a key.
GroupByHaving(result, having_clause, condition) ==
    IF having_clause.kind = "empty" THEN Ok(result)
    ELSE IF ~condition.ok THEN condition
    ELSE Ok(result \o <<"HAVING">> \o condition.sql)

\* generate_group_by if an empty group_by_fields list did not end it before
\* the having clause is rendered.
generate_group_by_having(group_by_fields, having_clause) ==
    IF validate_group_by_data(group_by_fields, having_clause) # ""
    THEN Raise(validate_group_by_data(group_by_fields, having_clause))
    ELSE IF group_by_fields = <<>>
    THEN GroupByHaving(<<>>, having_clause, _generate_sql_condition(having_clause))
    ELSE IF \E i \in 1..Len(group_by_fields) :
                group_by_fields[i].val \notin DOMAIN field_mapping
    THEN Raise("KeyError")
    ELSE GroupByHaving(
             <<"GROUP BY">> \o
             JoinComma([i \in 1..Len(group_by_fields) |->
                           ColumnRef(field_mapping[group_by_fields[i].val].table_name,
                                     field_mapping[group_by_fields[i].val].field_name)]),
             having_clause, _generate_sql_condition(having_clause))

generate_group_by(group_by_fields, having_clause) ==
    IF validate_group_by_data(group_by_fields, having_clause) # ""
    THEN Raise(validate_group_by_data(group_by_fields, having_clause))
    ELSE IF group_by_fields = <<>> THEN Ok(<<>>)
    ELSE IF \E i \in 1..Len(group_by_fields) :
                group_by_fields[i].val \notin DOMAIN field_mapping
    THEN Raise("KeyError")
    ELSE GroupByHaving(
             <<"GROUP BY">> \o
             JoinComma([i \in 1..Len(group_by_fields) |->
                           ColumnRef(field_mapping[group_by_fields[i].val].table_name,
                                     field_mapping[group_by_fields[i].val].field_name)]),
             having_clause, _generate_sql_condition(having_clause))

(***************************************************************************)
(* Schema registry: construction.                                          *)
(***************************************************************************)
\* Table names, and their order under Python's string comparison.
Tables == {"A", "B", "C", "D"}
TableRank == [t \in Tables |-> CASE t = "A" -> 1 [] t = "B" -> 2 [] t = "C" -> 3 [] t = "D" -> 4]

\* The dict comprehension of _parse_field_mapping over rows
\* (field_identifier, field_name, table_name, data_type): a later row wins.
RECURSIVE _parse_field_mapping(_)
_parse_field_mapping(rows) ==
    IF rows = <<>> THEN EmptyDict
    ELSE LET field == rows[Len(rows)]
         IN  DictSet(_parse_field_mapping(SubSeq(rows, 1, Len(rows) - 1)), field[1],
                     [field_name |-> field[2], table_name |-> field[3],
                      data_type |-> field[4]])

\* _parse_multi_path_mapping over rows (join_tbl, join_fld, parent_tbl, parent_fld,
\* join_tbl_active_fld); [ok, map]: ok is FALSE when the assertion fails.
RECURSIVE _parse_multi_path_mapping(_)
_parse_multi_path_mapping(paths) ==
    IF paths = <<>> THEN [ok |-> TRUE, map |-> EmptyDict]
    ELSE LET before == _parse_multi_path_mapping(SubSeq(paths, 1, Len(paths) - 1))
             row == paths[Len(paths)]
             join_tbl == row[1]
             inner == IF join_tbl \in DOMAIN before.map THEN before.map[join_tbl]
                      ELSE EmptyDict
         IN  IF ~before.ok \/ row[3] \in DOMAIN inner THEN [ok |-> FALSE, map |-> EmptyDict]
             ELSE [ok |-> TRUE,
                   map |-> DictSet(before.map, join_tbl,
                               DictSet(inner, row[3],
                                   [parent_column |-> row[4], join_column |-> row[2],
                                    join_table_active_field |-> row[5]]))]

(***************************************************************************)
(* Join planner.                                                           *)
(***************************************************************************)
\* self.path_mapping[key] on the defaultdict: the value read and the mapping after
\* the read (a missing key is inserted with an empty dict).
PathLookup(mapping, key) ==
    IF key \in DOMAIN mapping THEN [value |-> mapping[key], mapping |-> mapping]
    ELSE [value |-> EmptyDict, mapping |-> DictSet(mapping, key, EmptyDict)]

\* set(path_hints.values())
HintValues(path_hints) == {path_hints[k] : k \in DOMAIN path_hints}

\* The loop body if an ambiguous table took some candidate parent instead of
\* raising.
PlanNodeAnyParent(curr_node, base, next_nodes, start_nodes, path_hints) ==
    IF curr_node = base THEN [err |-> "", push |-> FALSE, parent |-> curr_node]
    ELSE IF curr_node \in DOMAIN path_hints /\ path_hints[curr_node] \in DOMAIN next_nodes
    THEN [err |-> "", push |-> TRUE, parent |-> path_hints[curr_node]]
    ELSE IF DOMAIN next_nodes # {}
    THEN [err |-> "", push |-> TRUE, parent |-> CHOOSE p \in DOMAIN next_nodes : TRUE]
    ELSE [err |-> "Exception", push |-> FALSE, parent |-> curr_node]

\* The loop body if a hint were taken without the two assertions on it.
PlanNodeHintUnchecked(curr_node, base, next_nodes, start_nodes, path_hints) ==
    IF curr_node = base THEN [err |-> "", push |-> FALSE, parent |-> curr_node]
    ELSE IF curr_node \in DOMAIN path_hints
    THEN IF path_hints[curr_node] \notin DOMAIN next_nodes
         THEN [err |-> "AssertionError", push |-> FALSE, parent |-> curr_node]
         ELSE [err |-> "", push |-> TRUE, parent |-> path_hints[curr_node]]
    ELSE IF Cardinality(DOMAIN next_nodes) = 1
    THEN [err |-> "", push |-> TRUE, parent |-> CHOOSE p \in DOMAIN next_nodes : TRUE]
    ELSE [err |-> "Exception", push |-> FALSE, parent |-> curr_node]

\* One iteration of the while loop of extract_paths_subset on curr_node (already
\* popped): [err, push, parent]: the exception raised, whether a parent is pushed
\* and recorded, and that parent.
PlanNode(curr_node, base, next_nodes, start_nodes, path_hints) ==
    IF curr_node = base THEN [err |-> "", push |-> FALSE, parent |-> curr_node]
    ELSE IF curr_node \in DOMAIN path_hints
    THEN IF path_hints[curr_node] \notin DOMAIN next_nodes
         THEN [err |-> "AssertionError", push |-> FALSE, parent |-> curr_node]
         ELSE IF Cardinality((DOMAIN next_nodes)
                             \cap (start_nodes \cup HintValues(path_hints))) # 1
         THEN [err |-> "AssertionError", push |-> FALSE, parent |-> curr_node]
         ELSE [err |-> "", push |-> TRUE, parent |-> path_hints[curr_node]]
    ELSE IF Cardinality(DOMAIN next_nodes) = 1
    THEN [err |-> "", push |-> TRUE, parent |-> CHOOSE p \in DOMAIN next_nodes : TRUE]
    ELSE [err |-> "Exception", push |-> FALSE, parent |-> curr_node]

\* path_subset[parent_node] = {curr_node}: what an assignment in place of the
\* set's add would store, forgetting the children recorded before.
SubsetAssign(path_subset, parent_node, curr_node) ==
    DictSet(path_subset, parent_node, {curr_node})

\* path_subset[parent_node].add(curr_node) on the defaultdict(set)
SubsetAdd(path_subset, parent_node, curr_node) ==
    DictSet(path_subset, parent_node,
            (IF parent_node \in DOMAIN path_subset THEN path_subset[parent_node] ELSE {})
            \cup {curr_node})

\* sorted(names, reverse=True): the descending order.
RECURSIVE SortedReverse(_)
SortedReverse(names) ==
    IF names = {} THEN <<>>
    ELSE LET first == CHOOSE n \in names : \A m \in names : TableRank[n] >= TableRank[m]
         IN  <<first>> \o SortedReverse(names \ {first})

\* sorted(names)
RECURSIVE Sorted(_)
Sorted(names) ==
    IF names = {} THEN <<>>
    ELSE LET first == CHOOSE n \in names : \A m \in names : TableRank[n] <= TableRank[m]
         IN  <<first>> \o Sorted(names \ {first})

\* The pairs (join table, parent table) create_join_path yields.
RECURSIVE create_join_path(_, _)
RECURSIVE JoinChildren(_, _, _)
JoinChildren(path_map, curr_table, names) ==
    IF names = <<>> THEN <<>>
    ELSE <<(<<Head(names), curr_table>>)>> \o create_join_path(path_map, Head(names))
         \o JoinChildren(path_map, curr_table, Tail(names))

create_join_path(path_map, curr_table) ==
    IF curr_table \notin DOMAIN path_map THEN <<>>
    ELSE JoinChildren(path_map, curr_table, Sorted(path_map[curr_table]))

\* One LEFT JOIN phrase of generate_left_join.
LeftJoin(mapping, join_table, parent_table) ==
    LET edge == mapping[join_table][parent_table]
        join_condition == <<join_table, ".", edge.join_column, "=",
                            parent_table, ".", edge.parent_column>>
    IN  <<"LEFT JOIN", join_table, "ON">> \o
        (IF edge.join_table_active_field # ""
         THEN <<"(">> \o join_condition \o
              <<"AND", join_table, ".", edge.join_table_active_field, "=", "TRUE", ")">>
         ELSE join_condition)

RECURSIVE generate_left_join(_, _)
generate_left_join(mapping, join_path) ==
    IF join_path = <<>> THEN <<>>
    ELSE LeftJoin(mapping, join_path[1][1], join_path[1][2])
         \o generate_left_join(mapping, Tail(join_path))

(***************************************************************************)
(* Subquery composer and emitter: the pure parts.  The field map of a      *)
(* subquery (and select_fields) is a dict kept as the sequence of its      *)
(* items [key, keys, field, alias, data_type, is_member_id, aggregate_lhs, *)
(* category].                                                              *)
(***************************************************************************)
\* The exception _validate_subquery raises, "" when it returns.
_validate_subquery(subquery) ==
    IF subquery.subquery_is_sql
    THEN LET template_variables == Placeholders(subquery.subquery_template_str)
             parameters == subquery.subquery_params
         IN  IF template_variables = {} THEN ""
             ELSE IF (DOMAIN parameters) # template_variables THEN "AssertionError"
             ELSE IF {parameters[n] : n \in DOMAIN parameters}
                        \subseteq ALLOWED_CUSTOM_METHOD_PARAM_TYPES
             THEN "" ELSE "AssertionError"
    ELSE ""

\* Lines 572-579: [err, join_fld, none] from the loop over the subquery's fields.
RECURSIVE MemberIdField(_, _)
MemberIdField(select_fields, found) ==
    IF select_fields = <<>> THEN found
    ELSE LET d == Head(select_fields)
         IN  IF d.is_member_id
             THEN IF "alias" \notin d.keys
                  THEN [err |-> "AssertionError", join_fld |-> "", none |-> TRUE]
                  ELSE MemberIdField(Tail(select_fields),
                                     [err |-> "", join_fld |-> d.alias, none |-> FALSE])
             ELSE MemberIdField(Tail(select_fields), found)

\* Lines 598-602: the LEFT JOIN of one subquery.
SubqueryJoin(sql, alias, join_fld, parent_tbl) ==
    <<"LEFT JOIN", "(">> \o sql \o <<")", "AS", alias, "ON">>
    \o ColumnRef(alias, join_fld) \o <<"=">> \o ColumnRef(parent_tbl, "id")

\* One select field of generate_select_phrase.
SelectField(d) ==
    LET known == "field" \in d.keys /\ d.field \in DOMAIN field_mapping
        select_field ==
            IF d.key # "member_id"
            THEN ColumnRef(_get_table_name(d.field), field_mapping[d.field].field_name)
            ELSE ColumnRef(d.category, d.field)
        aggregated == "aggregate_lhs" \in d.keys /\ d.aggregate_lhs # ""
    IN  IF d.key # "member_id" /\ ~known THEN Raise("KeyError")
        ELSE IF d.key = "member_id" /\ ~({"field", "category"} \subseteq d.keys)
        THEN Raise("KeyError")
        ELSE IF aggregated /\ Upper(d.aggregate_lhs) \notin ALLOWED_AGGREGATE_FUNCTIONS
        THEN Raise("AssertionError")
        ELSE IF "alias" \notin d.keys THEN Raise("AssertionError")
        ELSE Ok(_sql_injection_proof(
                    IF aggregated
                    THEN <<Upper(d.aggregate_lhs), "(">> \o select_field \o <<")">>
                    ELSE select_field)
                \o <<"AS">> \o _sql_injection_proof(<<d.alias>>))

RECURSIVE SelectFields(_)
SelectFields(items) ==
    IF items = <<>> THEN Ok(<<>>)
    ELSE LET first == SelectField(Head(items))
             rest == SelectFields(Tail(items))
         IN  IF ~first.ok THEN first
             ELSE IF ~rest.ok THEN rest
             ELSE Ok(first.sql \o (IF Tail(items) = <<>> THEN <<>> ELSE <<",">>) \o rest.sql)

\* select_fields is the sequence of items, empty for None or {}; base is
\* self.base_table when the method runs.
generate_select_phrase(select_fields, base) ==
    IF select_fields # <<>> THEN SelectFields(select_fields)
    ELSE Ok(<<"COUNT", "(", "DISTINCT">> \o ColumnRef(base, "id") \o <<")">>)

\* Lines 403-411: the statement.
Statement(select_phrase, base, sub_query_phrase, join_phrase, where_phrase, group_by_phrase) ==
    <<"SELECT">> \o select_phrase \o <<"FROM", base>> \o sub_query_phrase \o join_phrase
    \o <<"WHERE">> \o where_phrase \o group_by_phrase

(***************************************************************************)
(* The dicts a caller builds: where leaves, requests, sub_queries entries. *)
(***************************************************************************)
Leaf(field, operator, value) ==
    [keys |-> {"field", "operator", "value"}, field |-> field, operator |-> operator,
     value |-> value, secondary_value |-> <<>>, aggregate_lhs |-> "", subquery |-> "",
     alias |-> ""]
WithAggregate(cond, name) ==
    [cond EXCEPT !.keys = @ \cup {"aggregate_lhs"}, !.aggregate_lhs = name]
WithSecondary(cond, value) ==
    [cond EXCEPT !.keys = @ \cup {"secondary_value"}, !.secondary_value = value]

BaseRequest ==
    [keys |-> {"fields", "where_data"}, fields |-> <<>>, where_data |-> EmptyNode,
     group_by_fields |-> <<>>, having |-> EmptyNode, path_hints |-> EmptyDict,
     sub_queries |-> <<>>]
WithGroupBy(data, group_by_fields) ==
    [data EXCEPT !.keys = @ \cup {"group_by_fields"}, !.group_by_fields = group_by_fields]
WithHaving(data, having) == [data EXCEPT !.keys = @ \cup {"having"}, !.having = having]
WithHints(data, path_hints) ==
    [data EXCEPT !.keys = @ \cup {"path_hints"}, !.path_hints = path_hints]
WithSubQueries(data, sub_queries) ==
    [data EXCEPT !.keys = @ \cup {"sub_queries"}, !.sub_queries = sub_queries]

SubqueryRef(unique_id, alias) ==
    [keys |-> {"unique_id", "alias"}, unique_id |-> unique_id, alias |-> alias,
     parameters |-> EmptyDict]

(***************************************************************************)
(* generate_sql as a state machine.  Each caller thread has a stack of     *)
(* generate_sql frames: generate_subquery calls generate_sql again for a   *)
(* nested-predicate subquery.  A frame's data_ref names the dict it was    *)
(* given as `data`: "" is the caller's request, any other value the id of  *)
(* the subquery whose stored body it is.                                   *)
(***************************************************************************)
Threads == {1, 2}
RecursionLimit == 3    \* frames one thread may stack before RecursionError

Top(t) == stack[t][Len(stack[t])]
Data(t, frame) ==
    IF frame.data_ref = "" THEN request[t]
    ELSE subquery_mapping[frame.data_ref].subquery_template_str

NewFrame(ref, base, select_fields, has_alias_params, alias_params) ==
    [data_ref |-> ref, base_table |-> base, select_fields |-> select_fields,
     has_alias_params |-> has_alias_params, alias_params |-> alias_params,
     pc |-> "start", where_phrase |-> <<>>, start_nodes |-> {},
     traversal_nodes |-> <<>>, path_subset |-> EmptyDict, join_phrase |-> <<>>,
     group_by_phrase |-> <<>>, sq_i |-> 1, result |-> <<>>]

SetTop(t, frame) == [stack EXCEPT ![t] = [@ EXCEPT ![Len(@)] = frame]]

\* What the caller gets from one generate_sql call: the exception, or the
\* statement together with the phrases it was formatted from (lines 403-411).
Failure(err) ==
    [ok |-> FALSE, sql |-> <<>>, err |-> err, select_phrase |-> <<>>, base_table |-> "",
     sub_query_phrase |-> <<>>, join_phrase |-> <<>>, where_phrase |-> <<>>,
     group_by_phrase |-> <<>>]
Returned(select_phrase, frame) ==
    [ok |-> TRUE,
     sql |-> Statement(select_phrase, frame.base_table, frame.result, frame.join_phrase,
                       frame.where_phrase, frame.group_by_phrase),
     err |-> "", select_phrase |-> select_phrase, base_table |-> frame.base_table,
     sub_query_phrase |-> frame.result, join_phrase |-> frame.join_phrase,
     where_phrase |-> frame.where_phrase, group_by_phrase |-> frame.group_by_phrase]

\* An exception leaves every frame of the thread; the caller sees it.
Raised(t, err) ==
    /\ stack' = [stack EXCEPT ![t] = <<>>]
    /\ results' = [results EXCEPT ![t] = Append(@, Failure(err))]

\* list(set): the elements in some order.
Orders(S) == {o \in [1..Cardinality(S) -> S] : \A i, j \in 1..Cardinality(S) :
                                                    o[i] = o[j] => i = j}

\* The caller invokes generate_sql(data, base_table) with a request and a base
\* table of its choice.
Call(t, requests, bases) ==
    /\ stack[t] = <<>>
    /\ results[t] = <<>>
    /\ \E data \in requests, b \in bases :
           /\ request' = [request EXCEPT ![t] = data]
           /\ args' = [args EXCEPT ![t] = [base_table |-> b]]
           /\ stack' = [stack EXCEPT ![t] = <<NewFrame("", b, <<>>, FALSE, EmptyDict)>>]
    /\ UNCHANGED <<base_table, registry, constructed, init, results>>

\* The caller invokes generate_sql once more with the same dict and arguments.
Recall(t) ==
    /\ stack[t] = <<>>
    /\ Len(results[t]) = 1
    /\ stack' = [stack EXCEPT ![t] =
                    <<NewFrame("", args[t].base_table, <<>>, FALSE, EmptyDict)>>]
    /\ UNCHANGED <<base_table, registry, constructed, init, request, args, results>>

\* The caller drops the request dict and what generate_sql gave it.
Forget(t) ==
    /\ stack[t] = <<>>
    /\ results[t] # <<>>
    /\ request' = [request EXCEPT ![t] = BaseRequest]
    /\ args' = [args EXCEPT ![t] = [base_table |-> ""]]
    /\ results' = [results EXCEPT ![t] = <<>>]
    /\ UNCHANGED <<base_table, registry, constructed, init, stack>>

\* x['field'] fails on an entry of group_by_fields that is no dict.
NotDicts(data) ==
    /\ "group_by_fields" \in data.keys
    /\ \E i \in 1..Len(data.group_by_fields) : data.group_by_fields[i].py # "dict"

\* Line 384: data['group_by_fields'] = [x['field'] for x in data['group_by_fields']]
Rewritten(data) ==
    [data EXCEPT !.group_by_fields =
        [i \in 1..Len(data.group_by_fields) |-> GroupById(data.group_by_fields[i].val)]]

\* Line 387: the tables of data['fields'].
UnknownField(data) == \E i \in 1..Len(data.fields) : data.fields[i] \notin DOMAIN field_mapping
StartNodes(data) == {field_mapping[data.fields[i]].table_name : i \in 1..Len(data.fields)}

\* The exception of lines 376-377, "" when there is none.
WhereError(ve, where_phrase) ==
    IF ve # "" THEN ve ELSE IF ~where_phrase.ok THEN where_phrase.err ELSE ""

BeginWhere(t, frame, data, where_err, where_sql) ==
    LET rewrites == where_err = "" /\ "group_by_fields" \in data.keys /\ ~NotDicts(data)
        err == IF where_err # "" THEN where_err
               ELSE IF NotDicts(data) THEN "TypeError"
               ELSE IF UnknownField(data) THEN "KeyError"
               ELSE ""
    IN  /\ base_table' = frame.base_table
        /\ IF rewrites /\ frame.data_ref = ""
           THEN request' = [request EXCEPT ![t] = Rewritten(data)]
           ELSE UNCHANGED request
        /\ IF rewrites /\ frame.data_ref # ""
           THEN subquery_mapping' =
                    [subquery_mapping EXCEPT
                         ![frame.data_ref].subquery_template_str = Rewritten(data)]
           ELSE UNCHANGED subquery_mapping
        /\ IF err # "" THEN Raised(t, err)
           ELSE /\ \E order \in Orders(StartNodes(data)) :
                       stack' = SetTop(t, [frame EXCEPT
                                               !.pc = "plan",
                                               !.where_phrase = where_sql,
                                               !.start_nodes = StartNodes(data),
                                               !.traversal_nodes = order])
                /\ UNCHANGED results

BeginRendered(t, frame, data, ve, where_phrase) ==
    BeginWhere(t, frame, data, WhereError(ve, where_phrase), where_phrase.sql)

BeginFrame(t, frame, data) ==
    BeginRendered(t, frame, data,
                  IF "where_data" \in data.keys THEN validate_where_data(data.where_data)
                  ELSE "AssertionError",
                  _generate_sql_condition(data.where_data))

\* Lines 375-389 and 456-459: self.base_table is set, where_data validated and
\* rendered, group_by_fields rewritten in the dict, the worklist initialised.
Begin(t) ==
    /\ stack[t] # <<>>
    /\ Top(t).pc = "start"
    /\ BeginFrame(t, Top(t), Data(t, Top(t)))
    /\ UNCHANGED <<field_mapping, path_mapping, custom_methods, variable_templates,
                   constructed, init, args>>

PlanApply(t, frame, curr_node, popped, step) ==
    IF step.err # "" THEN Raised(t, step.err)
    ELSE /\ stack' = SetTop(t,
               IF step.push
               THEN [frame EXCEPT !.traversal_nodes = Append(popped, step.parent),
                                  !.path_subset = SubsetAdd(@, step.parent, curr_node)]
               ELSE [frame EXCEPT !.traversal_nodes = popped])
         /\ UNCHANGED results

PlanRead(t, frame, curr_node, popped, read, path_hints) ==
    /\ path_mapping' = read.mapping
    /\ PlanApply(t, frame, curr_node, popped,
                 PlanNode(curr_node, base_table, read.value, frame.start_nodes, path_hints))

PlanPop(t, frame, curr_node, path_hints) ==
    PlanRead(t, frame, curr_node,
             SubSeq(frame.traversal_nodes, 1, Len(frame.traversal_nodes) - 1),
             IF curr_node = base_table
             THEN [value |-> EmptyDict, mapping |-> path_mapping]
             ELSE PathLookup(path_mapping, curr_node),
             path_hints)

PathHints(data) == IF "path_hints" \in data.keys THEN data.path_hints ELSE EmptyDict

\* Lines 462-485: one iteration of the while loop of extract_paths_subset.
PlanStep(t) ==
    /\ stack[t] # <<>>
    /\ Top(t).pc = "plan"
    /\ Top(t).traversal_nodes # <<>>
    /\ PlanPop(t, Top(t), Top(t).traversal_nodes[Len(Top(t).traversal_nodes)],
               PathHints(Data(t, Top(t))))
    /\ UNCHANGED <<base_table, field_mapping, custom_methods, subquery_mapping,
                   variable_templates, constructed, init, request, args>>

\* _generate_alias_params: [ok, params]
AliasParam(subquery) == IF "parameters" \in subquery.keys THEN subquery.parameters ELSE EmptyDict
RECURSIVE _generate_alias_params(_)
AliasAdd(before, subquery) ==
    IF ~before.ok \/ "alias" \notin subquery.keys
    THEN [ok |-> FALSE, params |-> EmptyDict]
    ELSE [ok |-> TRUE, params |-> DictSet(before.params, subquery.alias, AliasParam(subquery))]
_generate_alias_params(subqueries) ==
    IF subqueries = <<>> THEN [ok |-> TRUE, params |-> EmptyDict]
    ELSE AliasAdd(_generate_alias_params(SubSeq(subqueries, 1, Len(subqueries) - 1)),
                  subqueries[Len(subqueries)])

SubQueries(data) == IF "sub_queries" \in data.keys THEN data.sub_queries ELSE <<>>

EmitPhrases(t, frame, join_phrase, group_by_phrase, alias_params) ==
    IF ~group_by_phrase.ok THEN Raised(t, group_by_phrase.err)
    ELSE IF ~frame.has_alias_params /\ ~alias_params.ok THEN Raised(t, "AssertionError")
    ELSE /\ stack' = SetTop(t, [frame EXCEPT
                                   !.pc = "subq",
                                   !.join_phrase = join_phrase,
                                   !.group_by_phrase = group_by_phrase.sql,
                                   !.alias_params = IF frame.has_alias_params THEN @
                                                    ELSE alias_params.params])
         /\ UNCHANGED results

EmitFrame(t, frame, data) ==
    EmitPhrases(t, frame,
        generate_left_join(path_mapping, create_join_path(frame.path_subset, base_table)),
        generate_group_by(
            IF "group_by_fields" \in data.keys THEN data.group_by_fields ELSE <<>>,
            IF "having" \in data.keys THEN data.having ELSE EmptyNode),
        _generate_alias_params(SubQueries(data)))

\* Lines 390-397, once the worklist is empty: the joins, the group-by fragment
\* and the alias parameters.
Emit(t) ==
    /\ stack[t] # <<>>
    /\ Top(t).pc = "plan"
    /\ Top(t).traversal_nodes = <<>>
    /\ EmitFrame(t, Top(t), Data(t, Top(t)))
    /\ UNCHANGED <<base_table, registry, constructed, init, request, args>>

\* Lines 562-590 for one entry of sub_queries that has a unique_id, up to the
\* point where its SQL is produced: [err, is_sql, sql, join_fld].
EntryFails(e) == [err |-> e, is_sql |-> FALSE, sql |-> <<>>, join_fld |-> ""]

\* The raw SQL entry if a field map without a member id field fell back to the
\* column member_id.
EntryFormattedFallback(member, sql) ==
    IF ~sql.ok THEN EntryFails(sql.err)
    ELSE [err |-> "", is_sql |-> TRUE, sql |-> sql.sql,
          join_fld |-> IF member.none THEN "member_id" ELSE member.join_fld]

EntryFormatted(member, sql) ==
    IF ~sql.ok THEN EntryFails(sql.err)
    ELSE IF member.none THEN EntryFails("AssertionError")
    ELSE [err |-> "", is_sql |-> TRUE, sql |-> sql.sql, join_fld |-> member.join_fld]

EntrySql(subquery, member, bound) ==
    IF ~bound.ok THEN EntryFails(bound.err)
    ELSE EntryFormatted(member, Format(subquery.subquery_template_str, bound.bound))

EntrySupplied(subquery, member, supplied) ==
    EntrySql(subquery, member,
             ProcessParameters(subquery.subquery_params, supplied, DOMAIN supplied))

EntryValidated(subquery_dict, subquery, alias_params, ve, member) ==
    IF ve # "" THEN EntryFails(ve)
    ELSE IF "alias" \notin subquery_dict.keys THEN EntryFails("AssertionError")
    ELSE IF member.err # "" THEN EntryFails(member.err)
    ELSE IF subquery.subquery_is_sql
    THEN EntrySupplied(subquery, member,
                       IF subquery_dict.alias \in DOMAIN alias_params
                       THEN alias_params[subquery_dict.alias] ELSE EmptyDict)
    ELSE [err |-> "", is_sql |-> FALSE, sql |-> <<>>,
          join_fld |-> IF member.none \/ member.join_fld = "" THEN "member_id"
                       ELSE member.join_fld]

EntryChecked(subquery_dict, subquery, alias_params) ==
    EntryValidated(subquery_dict, subquery, alias_params, _validate_subquery(subquery),
                   MemberIdField(subquery.subquery_fields,
                                 [err |-> "", join_fld |-> "", none |-> TRUE]))

SubqueryEntry(subquery_dict, alias_params) ==
    IF subquery_dict.unique_id \notin DOMAIN subquery_mapping THEN EntryFails("KeyError")
    ELSE EntryChecked(subquery_dict, subquery_mapping[subquery_dict.unique_id], alias_params)

\* Lines 598-602 in the calling frame `outer`, when the nested generate_sql
\* returns `sql`.
ReturnTo(t, outer, subquery_dict, entry, sql) ==
    /\ stack' = [stack EXCEPT ![t] =
           Append(SubSeq(@, 1, Len(@) - 2),
                  [outer EXCEPT !.sq_i = @ + 1,
                                !.result = @ \o SubqueryJoin(sql, subquery_dict.alias,
                                                             entry.join_fld, base_table)])]
    /\ UNCHANGED results

ReturnOuter(t, outer, subquery_dict, sql) ==
    ReturnTo(t, outer, subquery_dict, SubqueryEntry(subquery_dict, outer.alias_params), sql)

\* Lines 401-411: the select phrase and the statement, returned to the caller or
\* to the generate_subquery that asked for it.
Finish(t, frame, select_phrase) ==
    IF ~select_phrase.ok THEN Raised(t, select_phrase.err)
    ELSE IF Len(stack[t]) = 1
    THEN /\ stack' = [stack EXCEPT ![t] = <<>>]
         /\ results' = [results EXCEPT ![t] = Append(@, Returned(select_phrase.sql, frame))]
    ELSE ReturnOuter(t, stack[t][Len(stack[t]) - 1],
                     SubQueries(Data(t, stack[t][Len(stack[t]) - 1]))
                         [stack[t][Len(stack[t]) - 1].sq_i],
                     Statement(select_phrase.sql, frame.base_table, frame.result,
                               frame.join_phrase, frame.where_phrase,
                               frame.group_by_phrase))

\* Lines 561-602 for one entry of sub_queries.
Entry(t, frame, subquery_dict, entry) ==
    IF "unique_id" \notin subquery_dict.keys
    THEN /\ stack' = SetTop(t, [frame EXCEPT !.sq_i = @ + 1])
         /\ UNCHANGED results
    ELSE IF entry.err # "" THEN Raised(t, entry.err)
    ELSE IF entry.is_sql
    THEN /\ stack' = SetTop(t,
                [frame EXCEPT
                    !.sq_i = @ + 1,
                    !.result = @ \o SubqueryJoin(entry.sql, subquery_dict.alias,
                                                 entry.join_fld, base_table)])
         /\ UNCHANGED results
    ELSE IF Len(stack[t]) >= RecursionLimit THEN Raised(t, "RecursionError")
    ELSE /\ stack' = [stack EXCEPT ![t] =
                Append(@, NewFrame(subquery_dict.unique_id, base_table,
                           subquery_mapping[subquery_dict.unique_id].subquery_fields,
                           TRUE, frame.alias_params))]
         /\ UNCHANGED results

SubqueryFrame(t, frame, subqueries) ==
    IF frame.sq_i > Len(subqueries)
    THEN Finish(t, frame, generate_select_phrase(frame.select_fields, base_table))
    ELSE Entry(t, frame, subqueries[frame.sq_i],
               SubqueryEntry(subqueries[frame.sq_i], frame.alias_params))

\* generate_subquery, one entry of sub_queries at a time, and then the rest of
\* generate_sql.
Subquery(t) ==
    /\ stack[t] # <<>>
    /\ Top(t).pc = "subq"
    /\ SubqueryFrame(t, Top(t), SubQueries(Data(t, Top(t))))
    /\ UNCHANGED <<base_table, registry, constructed, init, request, args>>

(***************************************************************************)
(* Inputs: the registry handed to __init__ and the requests of the callers.*)
(***************************************************************************)
FieldRows ==
    << <<"f1", "age", "A", INTEGER>>, <<"f2", "name", "B", STRING_TYPE>>,
       <<"f3", "kind", "C", CHOICE>>, <<"f4", "dob", "D", DATE>> >>
FieldIds == {FieldRows[i][1] : i \in 1..Len(FieldRows)}

\* Rows of `paths`: (join_tbl, join_fld, parent_tbl, parent_fld, join_tbl_active_fld).
PathCatalogue ==
    << <<"B", "a_id", "A", "id", "">>, <<"C", "b_id", "B", "id", "active">>,
       <<"D", "b_id", "B", "id", "">>, <<"C", "a_id", "A", "id", "">>,
       <<"D", "c_id", "C", "id", "">>, <<"C", "d_id", "D", "id", "">> >>

\* The rows of the catalogue at the indices I, in catalogue order.
RECURSIVE PathRows(_)
PathRows(I) ==
    IF I = {} THEN <<>>
    ELSE LET last == CHOOSE i \in I : \A j \in I : j <= i
         IN  Append(PathRows(I \ {last}), PathCatalogue[last])

SeqsUpTo(S, n) == UNION {[1..k -> S] : k \in 0..n}

AgeIsOne == Leaf("f1", "equals", <<"1">>)
NameLikeA == Leaf("f2", "like", <<"a">>)

\* The field map of a subquery whose member id column is `alias`, plus one column.
MemberFields(alias) ==
    << [key |-> "member_id", keys |-> {"field", "category", "alias", "is_member_id"},
        field |-> "id", alias |-> alias, data_type |-> INTEGER, is_member_id |-> TRUE,
        aggregate_lhs |-> "", category |-> "A"],
       [key |-> "s1", keys |-> {"field", "alias", "data_type", "aggregate_lhs"},
        field |-> "f1", alias |-> "top_age", data_type |-> INTEGER,
        is_member_id |-> FALSE, aggregate_lhs |-> "max", category |-> ""] >>

\* self.subquery_mapping as _parse_subquery_mapping builds it: q1 and q3 are
\* nested-predicate subqueries (q1 groups its rows), q2 and q4 are raw SQL
\* templates; the field maps of q3 and q4 mark no field is_member_id; q5 is a
\* nested-predicate subquery whose body lists q5 under sub_queries; q6 is a
\* nested-predicate subquery with a select field under the function sum.
SubqueryTable ==
    [id \in {"q1", "q2", "q3", "q4", "q5", "q6"} |->
        IF id = "q6"
        THEN [subquery_template_str |->
                  [BaseRequest EXCEPT !.fields = <<"f1">>, !.where_data = WhereNode(AgeIsOne)],
              subquery_params |-> EmptyDict,
              subquery_fields |-> [MemberFields("member_id") EXCEPT ![2].aggregate_lhs = "sum"],
              subquery_is_sql |-> FALSE]
        ELSE IF id = "q5"
        THEN [subquery_template_str |->
                  WithSubQueries([BaseRequest EXCEPT !.fields = <<"f1">>,
                                                     !.where_data = WhereNode(AgeIsOne)],
                                 <<SubqueryRef("q5", "s5")>>),
              subquery_params |-> EmptyDict, subquery_fields |-> MemberFields("member_id"),
              subquery_is_sql |-> FALSE]
        ELSE IF id = "q4"
        THEN [subquery_template_str |-> <<"SELECT", "member_id", "FROM", "visits">>,
              subquery_params |-> EmptyDict,
              subquery_fields |-> Tail(MemberFields("mid")), subquery_is_sql |-> TRUE]
        ELSE IF id = "q1"
        THEN [subquery_template_str |->
                  WithGroupBy([BaseRequest EXCEPT !.fields = <<"f1">>,
                                                  !.where_data = WhereNode(AgeIsOne)],
                              <<GroupByDict("f1")>>),
              subquery_params |-> EmptyDict, subquery_fields |-> MemberFields("member_id"),
              subquery_is_sql |-> FALSE]
        ELSE IF id = "q2"
        THEN [subquery_template_str |-> <<"SELECT", "mid", "FROM", "visits">>,
              subquery_params |-> EmptyDict, subquery_fields |-> MemberFields("mid"),
              subquery_is_sql |-> TRUE]
        ELSE [subquery_template_str |->
                  [BaseRequest EXCEPT !.fields = <<"f1">>, !.where_data = WhereNode(AgeIsOne)],
              subquery_params |-> EmptyDict, subquery_fields |-> <<>>,
              subquery_is_sql |-> FALSE]]

\* Caller-supplied values of at most MaxValueLen chunks.
ValueChunks == {"a", "1", Quote, Backslash, "2020-01-02"}
Values == SeqsUpTo(ValueChunks, MaxValueLen)

WhereOptions ==
    {EmptyNode,
     WhereNode(AgeIsOne),
     WhereNode(WithAggregate(AgeIsOne, "max")),
     ListNode(AND_CONDITION, <<WhereNode(AgeIsOne), WhereNode(NameLikeA)>>),
     ListNode(AND_CONDITION, <<WhereNode(WithAggregate(AgeIsOne, "max"))>>),
     ListNode(NOT_CONDITION,
              <<ListNode(OR_CONDITION, <<WhereNode(WithAggregate(AgeIsOne, "sum")),
                                         WhereNode(NameLikeA)>>)>>),
     ListNode(OR_CONDITION, <<WhereNode(NameLikeA), WhereNode(AgeIsOne),
                              ListNode(AND_CONDITION, <<WhereNode(AgeIsOne)>>)>>),
     ListNode(AND_CONDITION, <<>>),
     ListNode(OR_CONDITION, <<WhereNode(AgeIsOne), ListNode(NOT_CONDITION, <<>>)>>)}

HavingOptions ==
    {WhereNode(AgeIsOne),
     WhereNode(NameLikeA),
     WhereNode(WithAggregate(NameLikeA, "count")),
     WhereNode(WithAggregate(AgeIsOne, "sum")),
     ListNode(AND_CONDITION, <<WhereNode(NameLikeA)>>)}

\* Requests that vary the predicate tree, the grouping and the having clause.
TreeRequests ==
    LET plain == {[BaseRequest EXCEPT !.where_data = w, !.fields = f] :
                      w \in WhereOptions, f \in {<<>>, <<"f1">>, <<"f1", "f2">>, <<"f4">>}}
        grouped == plain \cup {WithGroupBy(d, <<GroupByDict("f1")>>) : d \in plain}
        empty == {WithGroupBy([BaseRequest EXCEPT !.where_data = WhereNode(AgeIsOne),
                                                  !.fields = f], <<>>) :
                      f \in {<<>>, <<"f1">>}}
    IN  grouped \cup empty
        \cup {WithHaving(d, h) : d \in grouped \cup empty, h \in HavingOptions}

\* Requests that join subqueries.
SubqueryRequests ==
    LET plain == [BaseRequest EXCEPT !.where_data = WhereNode(AgeIsOne), !.fields = <<"f1">>]
    IN  {WithSubQueries(d, s) :
            d \in {plain, WithGroupBy(plain, <<GroupByDict("f1")>>)},
            s \in {<<SubqueryRef("q1", "s1")>>, <<SubqueryRef("q2", "s2")>>,
                   <<SubqueryRef("q3", "s3")>>, <<SubqueryRef("q4", "s4")>>,
                   <<SubqueryRef("q5", "s5")>>, <<SubqueryRef("q6", "s6")>>,
                   <<SubqueryRef("q2", "s2"), SubqueryRef("q1", "s1")>>}}

\* Requests of one where leaf, over every value, data type and two operators.
ValueRequests ==
    LET leaves == {Leaf(f, op, v) : f \in FieldIds, op \in {"equals", STARTS_WITH},
                                    v \in Values}
    IN  {[BaseRequest EXCEPT !.where_data = WhereNode(c)] :
            c \in leaves \cup {WithSecondary(l, <<"1">>) : l \in leaves}}

\* Requests of one is_present leaf on every field.
PresentRequests ==
    {[BaseRequest EXCEPT !.where_data = WhereNode(Leaf(f, "is_present", v))] :
        f \in FieldIds, v \in {<<"TRUE">>, <<"true">>, <<"FALSE">>, <<"false">>, <<"a">>, <<"1">>}}

Requests == TreeRequests \cup SubqueryRequests \cup ValueRequests \cup PresentRequests

\* Requests that vary what the join planner is given.
HintOptions ==
    {[n \in {"C"} |-> "A"], [n \in {"C"} |-> "B"], [n \in {"D"} |-> "C"]}
PlanRequests ==
    {WithHints([BaseRequest EXCEPT !.where_data = WhereNode(AgeIsOne), !.fields = f], h) :
        f \in SeqsUpTo(FieldIds, MaxFields), h \in HintOptions}
    \cup {[BaseRequest EXCEPT !.where_data = WhereNode(AgeIsOne), !.fields = f] :
            f \in SeqsUpTo(FieldIds, MaxFields)}

(***************************************************************************)
(* The dict handed to __init__.  A JSON text is [valid, value]: json.loads  *)
(* returns value when the text is valid JSON and raises otherwise.         *)
(***************************************************************************)
Json(v) == [valid |-> TRUE, value |-> v]

\* Rows of `subqueries`: (id, is_sql, template, fields, parameters), the last
\* two JSON texts, and the template one too unless is_sql.
SubqueryRow(id, d) ==
    <<id, d.subquery_is_sql,
      IF d.subquery_is_sql THEN d.subquery_template_str ELSE Json(d.subquery_template_str),
      Json(d.subquery_fields), Json(d.subquery_params)>>
SubqueryRows ==
    <<SubqueryRow("q1", SubqueryTable["q1"]), SubqueryRow("q2", SubqueryTable["q2"]),
      SubqueryRow("q3", SubqueryTable["q3"]), SubqueryRow("q4", SubqueryTable["q4"]),
      SubqueryRow("q5", SubqueryTable["q5"]), SubqueryRow("q6", SubqueryTable["q6"])>>

InitKeys == {"field_mapping", "paths", "custom_methods", "subqueries", "variable_templates"}
InitData(paths) ==
    [keys |-> InitKeys, field_mapping |-> FieldRows, paths |-> paths,
     custom_methods |-> <<>>, subqueries |-> SubqueryRows, variable_templates |-> <<>>]

(***************************************************************************)
(* Inputs of __init__ that vary the rows of every table.                   *)
(***************************************************************************)
NotJson == [valid |-> FALSE, value |-> EmptyDict]
Foo == <<"foo", "(", "{x}", ")">>
Bar == <<"bar", "(", "{x}", ",", "{y}", ")">>

TemplateOptions == {<<>>, <<" ", " ">>, <<"now", "(", ")">>, Foo, <<" ">> \o Foo \o <<" ">>, Bar}
SchemaOptions ==
    {Json(EmptyDict), Json([n \in {"x"} |-> INTEGER]), Json([n \in {"x"} |-> "float"]),
     Json([n \in {"y"} |-> STRING_TYPE]),
     Json([n \in {"x", "y"} |-> IF n = "x" THEN STRING_TYPE ELSE "field"]), NotJson}

\* Rows of `custom_methods`: one row of every template and schema, and pairs
\* of rows with equal and with different ids.
CustomMethodOptions ==
    {<<>>}
    \cup {<<<<"m1", t, p>>>> : t \in TemplateOptions, p \in SchemaOptions}
    \cup {<<<<"m1", Foo, Json([n \in {"x"} |-> INTEGER])>>,
            <<id, Bar, Json([n \in {"x", "y"} |-> IF n = "x" THEN STRING_TYPE ELSE "field"])>>>> :
             id \in {"m1", "m2"}}

FieldOptions == {FieldRows, Append(FieldRows, <<"f1", "height", "B", STRING_TYPE>>)}

\* Rows of `subqueries`: q1 with one more row, a raw SQL template or a row
\* whose id or JSON is wrong.
RawRow(id, template, params) == <<id, TRUE, template, Json(MemberFields("mid")), params>>
SubqueryOptions ==
    {SubqueryRows}
    \cup {<<SubqueryRow("q1", SubqueryTable["q1"]), RawRow(id, <<"SELECT", "mid", "FROM", "visits",
                                                            "WHERE", "n", "=", "{x}">>, p)>> :
             id \in {"q1", "q2"},
             p \in {Json(EmptyDict), Json([n \in {"x"} |-> INTEGER]),
                    Json([n \in {"x"} |-> "float"]),
                    Json([n \in {"x", "y"} |-> INTEGER]), NotJson}}

InitOptions ==
    {[keys |-> InitKeys, field_mapping |-> f, paths |-> PathRows({1, 2}),
      custom_methods |-> m, subqueries |-> s, variable_templates |-> <<>>] :
         f \in FieldOptions, m \in CustomMethodOptions, s \in SubqueryOptions}
    \cup {[InitData(p) EXCEPT !.keys = InitKeys \ {k}] : p \in {PathRows({1, 2})}, k \in InitKeys}
    \cup {InitData(PathRows({1}) \o PathRows({1}))}

\* The payload of a custom_method node and the dict of one parameter.
Param(value) == [keys |-> {"value"}, value |-> value, field |-> ""]
NoValue == [keys |-> {}, value |-> <<>>, field |-> ""]
Method(template_id, parameters) ==
    [keys |-> {"template_id", "parameters"}, template_id |-> template_id,
     parameters |-> parameters]
ParamOptions == {Param(<<"1">>), Param(<<"0", "1">>), Param(<<"a">>), Param(<<>>), NoValue}
ParameterOptions ==
    {EmptyDict} \cup {[n \in {"x"} |-> v] : v \in ParamOptions}
    \cup {[n \in {"y"} |-> Param(<<"1">>)]}
    \cup {[n \in {"x", "y"} |-> IF n = "x" THEN v ELSE Param(<<"1">>)] : v \in ParamOptions}
MethodOptions ==
    {Method(id, p) : id \in {"m1", "m2"}, p \in ParameterOptions}
    \cup {[Method("m1", EmptyDict) EXCEPT !.keys = ks] : ks \in {{"template_id"}, {"parameters"}}}

\* Requests whose where_data holds a custom_method or questionnaire node.
MethodRequests ==
    {[BaseRequest EXCEPT !.where_data = CustomNode(k, d), !.fields = <<"f1">>] :
        k \in {CUSTOM_METHOD_CONDITION, QUESTIONNAIRE_CONDITION}, d \in MethodOptions}
    \cup {[BaseRequest EXCEPT !.fields = <<"f1">>,
               !.where_data = ListNode(AND_CONDITION,
                                  <<WhereNode(AgeIsOne),
                                    CustomNode(CUSTOM_METHOD_CONDITION, d)>>)] :
             d \in MethodOptions}
InitRequests ==
    MethodRequests
    \cup {WithSubQueries([BaseRequest EXCEPT !.where_data = WhereNode(AgeIsOne),
                                            !.fields = <<"f1">>], <<SubqueryRef(id, "s2")>>) :
             id \in {"q1", "q2"}}
    \cup {[BaseRequest EXCEPT !.where_data = WhereNode(AgeIsOne), !.fields = <<"f1", "f2">>]}

(***************************************************************************)
(* Construction: __init__ and the parsers of the registry tables.          *)
(***************************************************************************)
\* template_str.strip(): blanks (the token " ") at both ends are dropped.
RECURSIVE Strip(_)
Strip(template) ==
    IF template = <<>> THEN <<>>
    ELSE IF Head(template) = " " THEN Strip(Tail(template))
    ELSE IF template[Len(template)] = " "
    THEN Strip(SubSeq(template, 1, Len(template) - 1))
    ELSE template

\* The loop turn of _validate_custom_methods if the declared names were not
\* compared with the placeholders.
ValidateCustomMethodNoNames(template_mapping, row) ==
    LET template_id == row[1]
        template_str == Strip(row[2])
        parameters == row[3].value
        Fails(e) == [ok |-> FALSE, err |-> e, map |-> template_mapping]
    IN  IF ~row[3].valid THEN Fails("ValueError")
        ELSE IF template_str = <<>> THEN Fails("AssertionError")
        ELSE IF template_id \in DOMAIN template_mapping THEN Fails("AssertionError")
        ELSE IF ~({parameters[n] : n \in DOMAIN parameters}
                      \subseteq ALLOWED_CUSTOM_METHOD_PARAM_TYPES)
        THEN Fails("AssertionError")
        ELSE [ok |-> TRUE, err |-> "",
              map |-> DictSet(template_mapping, template_id,
                          [template_str |-> template_str, parameters |-> parameters])]

\* One turn of the loop of _validate_custom_methods on the mapping built so
\* far: [ok, err, map].
ValidateCustomMethod(template_mapping, row) ==
    LET template_id == row[1]
        template_str == Strip(row[2])
        parameters == row[3].value
        Fails(e) == [ok |-> FALSE, err |-> e, map |-> template_mapping]
    IN  IF ~row[3].valid THEN Fails("ValueError")
        ELSE IF template_str = <<>> THEN Fails("AssertionError")
        ELSE IF template_id \in DOMAIN template_mapping THEN Fails("AssertionError")
        ELSE IF (DOMAIN parameters) # Placeholders(template_str)
        THEN Fails("AssertionError")
        ELSE IF ~({parameters[n] : n \in DOMAIN parameters}
                      \subseteq ALLOWED_CUSTOM_METHOD_PARAM_TYPES)
        THEN Fails("AssertionError")
        ELSE [ok |-> TRUE, err |-> "",
              map |-> DictSet(template_mapping, template_id,
                          [template_str |-> template_str, parameters |-> parameters])]

\* _validate_custom_methods over rows (id, sql_template, variables).
RECURSIVE _validate_custom_methods(_)
_validate_custom_methods(sql_templates) ==
    IF sql_templates = <<>> THEN [ok |-> TRUE, err |-> "", map |-> EmptyDict]
    ELSE LET before == _validate_custom_methods(
                           SubSeq(sql_templates, 1, Len(sql_templates) - 1))
         IN  IF ~before.ok THEN before
             ELSE ValidateCustomMethod(before.map, sql_templates[Len(sql_templates)])

\* _parse_subquery_mapping over rows (id, is_sql, template, fields, parameters).
RECURSIVE _parse_subquery_mapping(_)
_parse_subquery_mapping(subqueries) ==
    IF subqueries = <<>> THEN [ok |-> TRUE, err |-> "", map |-> EmptyDict]
    ELSE LET before == _parse_subquery_mapping(SubSeq(subqueries, 1, Len(subqueries) - 1))
             row == subqueries[Len(subqueries)]
             subquery_id == row[1]
             is_sql == row[2]
             Fails(e) == [ok |-> FALSE, err |-> e, map |-> before.map]
         IN  IF ~before.ok THEN before
             ELSE IF ~row[5].valid \/ ~row[4].valid THEN Fails("ValueError")
             ELSE IF ~is_sql /\ ~row[3].valid THEN Fails("ValueError")
             ELSE IF subquery_id \in DOMAIN before.map THEN Fails("AssertionError")
             ELSE [ok |-> TRUE, err |-> "",
                   map |-> DictSet(before.map, subquery_id,
                               [subquery_template_str |->
                                    IF is_sql THEN row[3] ELSE row[3].value,
                                subquery_params |-> row[5].value,
                                subquery_fields |-> row[4].value,
                                subquery_is_sql |-> is_sql])]

\* The dict comprehension of _parse_variable_templates over rows
\* (unique_id, keyword, return_type).
RECURSIVE _parse_variable_templates(_)
_parse_variable_templates(rows) ==
    IF rows = <<>> THEN EmptyDict
    ELSE LET row == rows[Len(rows)]
         IN  DictSet(_parse_variable_templates(SubSeq(rows, 1, Len(rows) - 1)), row[1],
                     [keyword |-> row[2], return_type |-> row[3]])

\* __init__(data): [err, registry], err "" when the object is constructed.
__init__(data) ==
    LET paths == _parse_multi_path_mapping(data.paths)
        methods == _validate_custom_methods(data.custom_methods)
        subqueries == _parse_subquery_mapping(data.subqueries)
        Fails(e) == [err |-> e, registry |-> <<>>]
    IN  IF ~(InitKeys \subseteq data.keys) THEN Fails("AssertionError")
        ELSE IF ~paths.ok THEN Fails("AssertionError")
        ELSE IF ~methods.ok THEN Fails(methods.err)
        ELSE IF ~subqueries.ok THEN Fails(subqueries.err)
        ELSE [err |-> "",
              registry |-> <<_parse_field_mapping(data.field_mapping), paths.map,
                             methods.map, subqueries.map,
                             _parse_variable_templates(data.variable_templates)>>]

\* The constructor call: the tables are the object's only when it returns.
Construct ==
    /\ init.outcome = "new"
    /\ LET made == __init__(init.data)
       IN  IF made.err # ""
           THEN /\ init' = [init EXCEPT !.outcome = made.err]
                /\ UNCHANGED <<base_table, field_mapping, path_mapping, custom_methods,
                               subquery_mapping, variable_templates, constructed>>
           ELSE /\ init' = [init EXCEPT !.outcome = "ok"]
                /\ base_table' = ""
                /\ field_mapping' = made.registry[1]
                /\ path_mapping' = made.registry[2]
                /\ custom_methods' = made.registry[3]
                /\ subquery_mapping' = made.registry[4]
                /\ variable_templates' = made.registry[5]
                /\ constructed' = made.registry
    /\ UNCHANGED <<request, args, stack, results>>

(***************************************************************************)
(* Specifications.                                                         *)
(***************************************************************************)
\* __init__(data) with the given rows of `paths`.
Constructed(paths) ==
    /\ _parse_multi_path_mapping(paths).ok
    /\ base_table = ""
    /\ field_mapping = _parse_field_mapping(FieldRows)
    /\ path_mapping = _parse_multi_path_mapping(paths).map
    /\ custom_methods = EmptyDict
    /\ subquery_mapping = SubqueryTable
    /\ variable_templates = EmptyDict
    /\ constructed = registry
    /\ init = [data |-> InitData(paths), outcome |-> "ok"]
    /\ request = [t \in Threads |-> BaseRequest]
    /\ args = [t \in Threads |-> [base_table |-> ""]]
    /\ stack = [t \in Threads |-> <<>>]
    /\ results = [t \in Threads |-> <<>>]

Run(t) == Begin(t) \/ PlanStep(t) \/ Emit(t) \/ Subquery(t)

\* One caller; the path graph is a chain B -> A, C -> B, or holds the cycle
\* C -> D -> C beside B -> A.
Init == \E I \in {{1, 2}, {1, 5, 6}} : Constructed(PathRows(I))
Next == Call(1, Requests, {"A", "B"}) \/ Recall(1) \/ Forget(1) \/ Run(1)
Spec == Init /\ [][Next]_vars

\* One caller over the same two path graphs; a call that has started keeps
\* running.
FairRequests ==
    {[BaseRequest EXCEPT !.where_data = WhereNode(AgeIsOne), !.fields = f] :
        f \in SeqsUpTo(FieldIds, MaxFields)}
    \cup SubqueryRequests
FairNext == Call(1, FairRequests, {"A", "B"}) \/ Forget(1) \/ Run(1)
FairSpec == Init /\ [][FairNext]_vars /\ WF_vars(Run(1))

\* One caller, every path graph of at most MaxPaths rows of the catalogue.
PlanInit ==
    \E I \in SUBSET (1..Len(PathCatalogue)) :
        Cardinality(I) <= MaxPaths /\ Constructed(PathRows(I))
PlanNext == Call(1, PlanRequests, {"A", "B"}) \/ Forget(1) \/ Run(1)
PlanSpec == PlanInit /\ [][PlanNext]_vars

\* Two callers share the compiler.
ConcRequests ==
    {[BaseRequest EXCEPT !.where_data = WhereNode(AgeIsOne), !.fields = f] :
        f \in {<<>>, <<"f2">>, <<"f3">>}}
    \cup {WithSubQueries([BaseRequest EXCEPT !.where_data = WhereNode(AgeIsOne)],
                         <<SubqueryRef("q2", "s2")>>)}
ConcInit == Constructed(PathRows({1, 2}))
ConcNext == \E t \in Threads : Call(t, ConcRequests, {"A", "B"}) \/ Forget(t) \/ Run(t)
ConcSpec == ConcInit /\ [][ConcNext]_vars

\* Construction on every input of InitOptions, then calls on the object when
\* __init__ returned.
InitInit ==
    /\ init \in {[data |-> d, outcome |-> "new"] : d \in InitOptions}
    /\ base_table = ""
    /\ field_mapping = EmptyDict
    /\ path_mapping = EmptyDict
    /\ custom_methods = EmptyDict
    /\ subquery_mapping = EmptyDict
    /\ variable_templates = EmptyDict
    /\ constructed = <<>>
    /\ request = [t \in Threads |-> BaseRequest]
    /\ args = [t \in Threads |-> [base_table |-> ""]]
    /\ stack = [t \in Threads |-> <<>>]
    /\ results = [t \in Threads |-> <<>>]
InitCall == init.outcome = "ok" /\ Call(1, InitRequests, {"A"})
InitNext == Construct \/ InitCall \/ Forget(1) \/ Run(1)
InitSpec == InitInit /\ [][InitNext]_vars

(***************************************************************************)
(* Reading an emitted phrase back.                                         *)
(***************************************************************************)
\* The tables that qualify a column `table`.`column` in a phrase.
Qualifiers(tokens) ==
    {tokens[i + 1] : i \in {j \in 1..(Len(tokens) - 6) :
                               /\ tokens[j] = Backtick
                               /\ tokens[j + 2] = Backtick
                               /\ tokens[j + 3] = "."
                               /\ tokens[j + 4] = Backtick
                               /\ tokens[j + 6] = Backtick}}

\* The tables on the right of an ON alias.column = table.id of a joined subquery.
OnParents(tokens) ==
    {tokens[i + 2] : i \in {j \in 1..(Len(tokens) - 7) :
                               /\ tokens[j] = "="
                               /\ tokens[j + 1] = Backtick
                               /\ tokens[j + 3] = Backtick
                               /\ tokens[j + 4] = "."}}

\* The aliases of the joined subqueries of a phrase.
Aliases(tokens) ==
    {tokens[i + 1] : i \in {j \in 1..(Len(tokens) - 2) :
                               tokens[j] = "AS" /\ tokens[j + 2] = "ON"}}

\* The pairs (join table, parent table) of the LEFT JOINs of a join phrase, in
\* the order they are emitted.
RECURSIVE JoinsFrom(_, _)
JoinsFrom(tokens, i) ==
    IF i > Len(tokens) THEN <<>>
    ELSE IF tokens[i] = "LEFT JOIN"
    THEN <<(<<tokens[i + 1],
              IF tokens[i + 3] = "(" THEN tokens[i + 8] ELSE tokens[i + 7]>>)>>
         \o JoinsFrom(tokens, i + 1)
    ELSE JoinsFrom(tokens, i + 1)
JoinsOf(tokens) == JoinsFrom(tokens, 1)

(***************************************************************************)
(* Purity, frame and sharing.                                              *)
(***************************************************************************)
\* C1: generate_sql called twice in succession on one instance with the same
\* request, base_table and options gives the same outcome both times: the same
\* SQL, or a failure both times.
C1_SameOutcomeTwice ==
    \A t \in Threads :
        Len(results[t]) = 2 =>
            /\ results[t][1].ok = results[t][2].ok
            /\ results[t][1].sql = results[t][2].sql

\* C2: after any generate_sql call, returned or raised, field_mapping,
\* path_mapping, custom_methods, subquery_mapping and variable_templates equal
\* their values right after construction.
C2_RegistryAsConstructed ==
    \A t \in Threads :
        (stack[t] = <<>> /\ results[t] # <<>>) => registry = constructed

\* C3: of two generate_sql calls running concurrently on one instance with
\* different base_table arguments, neither has the other's base_table in its
\* select phrase, at the root of its join plan or in a subquery ON clause: each
\* returns the SQL of its own base_table.
C3_OwnBaseTable ==
    \A t \in Threads : \A k \in 1..Len(results[t]) :
        results[t][k].ok =>
            /\ Qualifiers(results[t][k].select_phrase) \subseteq {args[t].base_table}
            /\ OnParents(results[t][k].sub_query_phrase) \subseteq {args[t].base_table}
            /\ JoinsOf(results[t][k].join_phrase) # <<>> =>
                   JoinsOf(results[t][k].join_phrase)[1][2] = args[t].base_table

(***************************************************************************)
(* Tables in scope and quoting.                                            *)
(***************************************************************************)
\* C4: for every request compiled successfully, every table qualifying a column
\* of the WHERE fragment or the SELECT list is the base table of FROM, the join
\* table of an emitted LEFT JOIN, or a joined subquery alias.
C4_QualifiersInScope ==
    \A t \in Threads : \A k \in 1..Len(results[t]) :
        results[t][k].ok =>
            Qualifiers(results[t][k].where_phrase) \cup Qualifiers(results[t][k].select_phrase)
            \subseteq
            {results[t][k].base_table}
            \cup {JoinsOf(results[t][k].join_phrase)[i][1] :
                     i \in 1..Len(JoinsOf(results[t][k].join_phrase))}
            \cup Aliases(results[t][k].sub_query_phrase)

\* The single-quoted literals of a phrase, read as SQL reads them: a backslash
\* inside a literal takes the next character with it, a quote closes it.
\* [closed, count]: whether the phrase ends outside a literal, and how many
\* literals it holds.
RECURSIVE ScanLiterals(_, _, _, _)
ScanLiterals(tokens, i, inside, count) ==
    IF i > Len(tokens) THEN [closed |-> ~inside, count |-> count]
    ELSE IF inside /\ tokens[i] = Backslash THEN ScanLiterals(tokens, i + 2, TRUE, count)
    ELSE IF inside /\ tokens[i] = Quote THEN ScanLiterals(tokens, i + 1, FALSE, count + 1)
    ELSE IF tokens[i] = Quote THEN ScanLiterals(tokens, i + 1, TRUE, count)
    ELSE ScanLiterals(tokens, i + 1, inside, count)

\* C5: a caller-supplied value rendered inside single quotes went through the
\* escape routine: the WHERE fragment of one leaf with one value holds at most
\* one literal, and no quote or backslash of the value ends it early or leaves
\* it open.
C5_QuotedValuesEscaped ==
    \A t \in Threads : \A k \in 1..Len(results[t]) :
        (/\ results[t][k].ok
         /\ request[t].where_data.kind = WHERE_CONDITION
         /\ Lower(request[t].where_data.cond.operator) \notin BINARY_OPERATORS) =>
            /\ ScanLiterals(results[t][k].where_phrase, 1, FALSE, 0).closed
            /\ ScanLiterals(results[t][k].where_phrase, 1, FALSE, 0).count <= 1

(***************************************************************************)
(* Join planning.                                                          *)
(***************************************************************************)
\* The tables referenced through the fields list of a request.
Referenced(data) == {field_mapping[data.fields[i]].table_name : i \in 1..Len(data.fields)}

\* Following the emitted parent links from tbl reaches base in at most n steps.
RECURSIVE Climbs(_, _, _, _)
Climbs(tbl, base, joins, n) ==
    \/ tbl = base
    \/ /\ n > 0
       /\ \E i \in 1..Len(joins) : joins[i][1] = tbl /\ Climbs(joins[i][2], base, joins, n - 1)

JoinedOnce(joins, referenced, base) ==
    /\ \A tbl \in referenced \ {base} :
           /\ Cardinality({i \in 1..Len(joins) : joins[i][1] = tbl}) = 1
           /\ Climbs(tbl, base, joins, Len(joins))
    /\ \A i, j \in 1..Len(joins) : joins[i][1] = joins[j][1] => i = j

\* C6: whenever join planning succeeds, every table referenced through the
\* fields list other than base_table is the join table of exactly one emitted
\* LEFT JOIN and the emitted parent links lead from it to base_table; no join
\* table is emitted twice.
C6_ReferencedJoinedOnce ==
    \A t \in Threads : \A k \in 1..Len(results[t]) :
        results[t][k].ok =>
            JoinedOnce(JoinsOf(results[t][k].join_phrase), Referenced(request[t]),
                       results[t][k].base_table)

\* Two referenced tables that share the path prefix through a third were joined.
C6_SharedPrefixJoined ==
    \E t \in Threads : \E k \in 1..Len(results[t]) :
        /\ results[t][k].ok
        /\ Cardinality(Referenced(request[t]) \ {results[t][k].base_table}) = 2
        /\ Len(JoinsOf(results[t][k].join_phrase)) = 3
        /\ JoinsOf(results[t][k].join_phrase)[2][2] = JoinsOf(results[t][k].join_phrase)[3][2]
        /\ JoinsOf(results[t][k].join_phrase)[2][2] # results[t][k].base_table

\* The edge chosen for a table: its hint, else its only parent.
ChosenParent(tbl, path_hints) ==
    IF tbl \in DOMAIN path_hints THEN path_hints[tbl]
    ELSE CHOOSE p \in DOMAIN path_mapping[tbl] : TRUE

\* The referenced tables and the tables on their chosen paths, short of base.
RECURSIVE OnPaths(_, _, _, _)
OnPaths(found, base, path_hints, n) ==
    IF n = 0 THEN found
    ELSE OnPaths(found \cup ({ChosenParent(tbl, path_hints) : tbl \in found} \ {base}),
                 base, path_hints, n - 1)

\* Depth-first pre-order from parent over the chosen edges of the tables in
\* `among`, siblings in ascending table-name order; `todo` are the children of
\* parent still to be visited.
RECURSIVE Preorder(_, _, _, _)
Preorder(parent, todo, among, path_hints) ==
    IF todo = {} THEN <<>>
    ELSE LET least == CHOOSE c \in todo : \A d \in todo : TableRank[c] <= TableRank[d]
         IN  <<(<<least, parent>>)>>
             \o Preorder(least, {c \in among : ChosenParent(c, path_hints) = least},
                         among, path_hints)
             \o Preorder(parent, todo \ {least}, among, path_hints)

ExpectedJoins(referenced, base, path_hints) ==
    Preorder(base,
             {c \in OnPaths(referenced \ {base}, base, path_hints, Cardinality(Tables)) :
                 ChosenParent(c, path_hints) = base},
             OnPaths(referenced \ {base}, base, path_hints, Cardinality(Tables)),
             path_hints)

\* C7: the emitted LEFT JOIN sequence is the depth-first pre-order from
\* base_table over the chosen edges, siblings in ascending table-name order; the
\* parent of every join is base_table or the join table of an earlier join; the
\* sequence depends on the set of referenced tables only, not on the order or
\* repetition of the entries of fields.
C7_JoinsInPreorder ==
    \A t \in Threads : \A k \in 1..Len(results[t]) :
        results[t][k].ok =>
            /\ JoinsOf(results[t][k].join_phrase) =
                   ExpectedJoins(Referenced(request[t]), results[t][k].base_table,
                                 PathHints(request[t]))
            /\ \A i \in 1..Len(JoinsOf(results[t][k].join_phrase)) :
                   \/ JoinsOf(results[t][k].join_phrase)[i][2] = results[t][k].base_table
                   \/ \E j \in 1..(i - 1) :
                          JoinsOf(results[t][k].join_phrase)[j][1] =
                              JoinsOf(results[t][k].join_phrase)[i][2]

\* A fields list naming the later sibling before the earlier one was planned,
\* and both siblings were joined under their shared parent.
C7_SiblingsOutOfOrder ==
    \E t \in Threads : \E k \in 1..Len(results[t]) :
        /\ results[t][k].ok
        /\ Len(request[t].fields) = 2
        /\ TableRank[field_mapping[request[t].fields[1]].table_name] >
               TableRank[field_mapping[request[t].fields[2]].table_name]
        /\ Len(JoinsOf(results[t][k].join_phrase)) = 3
        /\ JoinsOf(results[t][k].join_phrase)[2][2] = JoinsOf(results[t][k].join_phrase)[3][2]

\* C8: every generate_sql call terminates, returning SQL or raising, whatever
\* the path graph: a call in progress leads to the call having left.
C8_CallTerminates == (stack[1] # <<>>) ~> (stack[1] = <<>>)

(***************************************************************************)
(* Validation of where_data and having.                                    *)
(***************************************************************************)
\* The where leaves anywhere under a node.
RECURSIVE LeavesOf(_)
LeavesOf(node) ==
    IF node.kind = WHERE_CONDITION THEN {node.cond}
    ELSE UNION {LeavesOf(node.children[i]) : i \in 1..Len(node.children)}

\* A phrase calls an aggregate function.
CallsAggregate(tokens) ==
    \E i \in 1..(Len(tokens) - 1) :
        tokens[i] \in ALLOWED_AGGREGATE_FUNCTIONS /\ tokens[i + 1] = "("

\* C9: a where leaf at any depth under where_data that carries a non-empty
\* aggregate_lhs makes generate_sql fail, and no WHERE fragment compiled
\* successfully contains an aggregate function call.
C9_NoAggregateInWhere ==
    \A t \in Threads : \A k \in 1..Len(results[t]) :
        results[t][k].ok =>
            /\ \A cond \in LeavesOf(request[t].where_data) :
                   "aggregate_lhs" \notin cond.keys \/ cond.aggregate_lhs = ""
            /\ ~CallsAggregate(results[t][k].where_phrase)

\* C10: a request with a where leaf at any depth under having that neither
\* references a field of group_by_fields nor carries an aggregate_lhs fails.
C10_HavingLeavesGrouped ==
    \A t \in Threads : \A k \in 1..Len(results[t]) :
        (results[t][k].ok /\ "having" \in request[t].keys) =>
            \A cond \in LeavesOf(request[t].having) :
                \/ "aggregate_lhs" \in cond.keys
                \/ /\ "group_by_fields" \in request[t].keys
                   /\ \E i \in 1..Len(request[t].group_by_fields) :
                          request[t].group_by_fields[i].val = cond.field

(***************************************************************************)
(* Path hints.                                                             *)
(***************************************************************************)
\* The candidate parents of a table in the path graph.
Candidates(tbl) == IF tbl \in DOMAIN path_mapping THEN DOMAIN path_mapping[tbl] ELSE {}

\* The tables join planning visited other than base_table, read back from the
\* joins of a successful call: each is the join table of one LEFT JOIN.
Visited(result) ==
    {JoinsOf(result.join_phrase)[i][1] : i \in 1..Len(JoinsOf(result.join_phrase))}

\* C11: if join planning visits a table other than base_table that has two or
\* more candidate parents and no entry in path_hints, generate_sql fails: no
\* call that returned SQL visited such a table.
C11_AmbiguousPathFails ==
    \A t \in Threads : \A k \in 1..Len(results[t]) :
        results[t][k].ok =>
            \A tbl \in Visited(results[t][k]) :
                tbl \notin DOMAIN PathHints(request[t]) => Cardinality(Candidates(tbl)) < 2

\* A call whose fields reference a table with two candidate parents and no
\* hint has failed with the planner's exception.
C11_AmbiguousPathRaised ==
    \E t \in Threads : \E k \in 1..Len(results[t]) :
        /\ ~results[t][k].ok
        /\ results[t][k].err = "Exception"
        /\ "path_hints" \notin request[t].keys
        /\ \E tbl \in Referenced(request[t]) \ {args[t].base_table} :
               Cardinality(Candidates(tbl)) >= 2

\* C12: when join planning visits a table that has an entry in path_hints, the
\* hinted parent is chosen, and planning fails unless the hinted parent is a
\* candidate parent of the table and exactly one candidate parent belongs to
\* the referenced tables together with all hinted parent values.
C12_HintedParentChosen ==
    \A t \in Threads : \A k \in 1..Len(results[t]) :
        results[t][k].ok =>
            \A i \in 1..Len(JoinsOf(results[t][k].join_phrase)) :
                LET tbl == JoinsOf(results[t][k].join_phrase)[i][1]
                    parent == JoinsOf(results[t][k].join_phrase)[i][2]
                    path_hints == PathHints(request[t])
                IN  tbl \in DOMAIN path_hints =>
                        /\ parent = path_hints[tbl]
                        /\ path_hints[tbl] \in Candidates(tbl)
                        /\ Cardinality(Candidates(tbl)
                                       \cap (Referenced(request[t])
                                             \cup HintValues(path_hints))) = 1

\* A hint chose between the two candidate parents of a visited table.
C12_HintDecided ==
    \E t \in Threads : \E k \in 1..Len(results[t]) :
        /\ results[t][k].ok
        /\ \E i \in 1..Len(JoinsOf(results[t][k].join_phrase)) :
               /\ JoinsOf(results[t][k].join_phrase)[i][1] \in DOMAIN PathHints(request[t])
               /\ Cardinality(Candidates(JoinsOf(results[t][k].join_phrase)[i][1])) = 2

(***************************************************************************)
(* Compound nodes.                                                         *)
(***************************************************************************)
\* The nodes of a tree: the node itself and the nodes under it.
RECURSIVE NodesOf(_)
NodesOf(node) ==
    {node} \cup UNION {NodesOf(node.children[i]) : i \in 1..Len(node.children)}

\* part \o sep \o part \o ... over the parts.
RECURSIVE Separated(_, _)
Separated(parts, sep) ==
    IF parts = <<>> THEN <<>>
    ELSE IF Len(parts) = 1 THEN parts[1]
    ELSE parts[1] \o sep \o Separated(Tail(parts), sep)

\* How often word occurs in tokens at parenthesis depth 1, from position i on,
\* depth being the depth before position i.
RECURSIVE TopLevelCount(_, _, _, _)
TopLevelCount(tokens, word, i, depth) ==
    IF i > Len(tokens) THEN 0
    ELSE IF tokens[i] = "(" THEN TopLevelCount(tokens, word, i + 1, depth + 1)
    ELSE IF tokens[i] = ")" THEN TopLevelCount(tokens, word, i + 1, depth - 1)
    ELSE (IF tokens[i] = word /\ depth = 1 THEN 1 ELSE 0)
         + TopLevelCount(tokens, word, i + 1, depth)

\* One parenthesised group: every child fragment in parentheses, in input
\* order, the operator word between consecutive children.
GroupOf(node) ==
    <<"(">> \o
    Separated([i \in 1..Len(node.children) |->
                  <<"(">> \o _generate_sql_condition(node.children[i]).sql \o <<")">>],
              <<node.kind>>)
    \o <<")">>

\* C13: an and/or node with N >= 1 children renders as one parenthesised group
\* in which every child fragment is wrapped in parentheses, children keep
\* their input order, and the operator word occurs exactly N-1 times at the
\* top level of the group, never before the first child.
C13_GroupOfChildren ==
    \A t \in Threads : \A k \in 1..Len(results[t]) :
        results[t][k].ok =>
            \A node \in NodesOf(request[t].where_data) :
                (node.kind \in {AND_CONDITION, OR_CONDITION} /\ Len(node.children) >= 1) =>
                    /\ _generate_sql_condition(node).ok
                    /\ _generate_sql_condition(node).sql = GroupOf(node)
                    /\ TopLevelCount(_generate_sql_condition(node).sql, node.kind, 1, 0)
                           = Len(node.children) - 1

\* A request whose where_data is an or node of three children has compiled.
C13_ThreeChildrenCompiled ==
    \E t \in Threads : \E k \in 1..Len(results[t]) :
        /\ results[t][k].ok
        /\ request[t].where_data.kind = OR_CONDITION
        /\ Len(request[t].where_data.children) = 3
        /\ results[t][k].where_phrase = GroupOf(request[t].where_data)

\* C14: an and, or or not node whose child sequence is empty is invalid: a
\* request that contains one under where_data fails to compile.
C14_EmptyChildrenFail ==
    \A t \in Threads : \A k \in 1..Len(results[t]) :
        results[t][k].ok =>
            \A node \in NodesOf(request[t].where_data) :
                node.kind \in {AND_CONDITION, OR_CONDITION, NOT_CONDITION} =>
                    node.children # <<>>

(***************************************************************************)
(* Leaves: integer values and LIKE wrapping.                               *)
(***************************************************************************)
\* The request of thread t is one where leaf on a registered field.
OneLeaf(t) ==
    /\ request[t].where_data.kind = WHERE_CONDITION
    /\ "subquery" \notin request[t].where_data.cond.keys
    /\ request[t].where_data.cond.field \in DOMAIN field_mapping

\* C19: for a where leaf on an integer field with an operator other than
\* is_op, compilation fails unless the value parses as an integer: no compiled
\* fragment has a non-integer or empty right-hand side for an integer field.
C19_IntegerValuesParse ==
    \A t \in Threads : \A k \in 1..Len(results[t]) :
        (/\ results[t][k].ok
         /\ OneLeaf(t)
         /\ _get_data_type(request[t].where_data.cond.field) = INTEGER
         /\ Lower(request[t].where_data.cond.operator) # "is_op") =>
            /\ ParsesAsInt(request[t].where_data.cond.value)
            /\ results[t][k].where_phrase[Len(results[t][k].where_phrase)] \in Digits

\* The literal of a LIKE operator: the escaped value with one % where the
\* operator puts it.
LikeLiteral(operator, value) ==
    (IF operator \in {ENDS_WITH, HAS_SUBSTRING} THEN <<"%">> ELSE <<>>)
    \o _sql_injection_proof(value)
    \o (IF operator \in {STARTS_WITH, HAS_SUBSTRING} THEN <<"%">> ELSE <<>>)

\* C20: a where leaf on a string field with operator starts_with, ends_with or
\* has_substring and value v renders as `table`.`column` LIKE '<lit>', <lit>
\* being the escaped v with exactly one % appended, prepended, or on each side.
C20_OnePercentSign ==
    \A t \in Threads : \A k \in 1..Len(results[t]) :
        (/\ results[t][k].ok
         /\ OneLeaf(t)
         /\ _get_data_type(request[t].where_data.cond.field) = STRING_TYPE
         /\ Lower(request[t].where_data.cond.operator) \in LIKE_OPERATORS) =>
            results[t][k].where_phrase =
                ColumnRef(_get_table_name(request[t].where_data.cond.field),
                          field_mapping[request[t].where_data.cond.field].field_name)
                \o <<"LIKE", Quote>>
                \o LikeLiteral(Lower(request[t].where_data.cond.operator),
                               request[t].where_data.cond.value)
                \o <<Quote>>


\* Two rows of a table carry the same id in their first column.
RepeatsAnId(rows) == \E i, j \in 1..Len(rows) : i # j /\ rows[i][1] = rows[j][1]

\* C15: when two rows of field_mapping carry the same field id, __init__ does
\* not return an object.
C15_DuplicateFieldIdsFail ==
    RepeatsAnId(init.data.field_mapping) => init.outcome # "ok"


\* A raw SQL descriptor that _validate_subquery's rules reject: placeholders
\* that differ from the declared names, or a type outside the allowed set.
BadRawSubquery(d) ==
    /\ d.subquery_is_sql
    /\ \/ Placeholders(d.subquery_template_str) # DOMAIN d.subquery_params
       \/ ~({d.subquery_params[n] : n \in DOMAIN d.subquery_params}
                \subseteq ALLOWED_CUSTOM_METHOD_PARAM_TYPES)

\* C16: the subquery table of a constructed object holds no raw SQL descriptor
\* whose placeholders differ from its declared parameter names or whose
\* parameter types are outside the allowed set.
C16_BadSubqueryNeverRegistered ==
    init.outcome = "ok" =>
        \A id \in DOMAIN subquery_mapping : ~BadRawSubquery(subquery_mapping[id])

\* C17: __init__ returns an object only if no two custom methods share an id
\* and every custom method has a non-empty stripped template and a JSON
\* object of declared parameters whose names are exactly the template's
\* placeholders.
C17_CustomMethodsValidated ==
    LET rows == init.data.custom_methods
    IN  init.outcome = "ok" =>
            /\ ~RepeatsAnId(rows)
            /\ \A i \in 1..Len(rows) :
                   /\ Strip(rows[i][2]) # <<>>
                   /\ rows[i][3].valid
                   /\ Placeholders(rows[i][2]) = DOMAIN rows[i][3].value

\* __init__ raised AssertionError on a custom method whose template is not
\* blank and whose declared names differ from its placeholders.
C17_MismatchRejected ==
    LET rows == init.data.custom_methods
    IN  /\ init.outcome = "AssertionError"
        /\ Len(rows) = 1
        /\ Strip(rows[1][2]) # <<>>
        /\ rows[1][3].valid
        /\ Placeholders(rows[1][2]) # DOMAIN rows[1][3].value


(***************************************************************************)
(* Custom method nodes.                                                    *)
(***************************************************************************)
\* The request of thread t is one custom_method or questionnaire node of a
\* registered method; its supplied parameters.
OneMethod(t) ==
    /\ request[t].where_data.kind \in {CUSTOM_METHOD_CONDITION, QUESTIONNAIRE_CONDITION}
    /\ "template_id" \in request[t].where_data.cond.keys
    /\ request[t].where_data.cond.template_id \in DOMAIN custom_methods
SuppliedTo(t) ==
    IF "parameters" \in request[t].where_data.cond.keys
    THEN request[t].where_data.cond.parameters ELSE EmptyDict

\* A supplied value written as its declared type asks.
ValueAs(data_type, parameter_data) ==
    IF data_type = INTEGER THEN IntText(parameter_data.value)
    ELSE IF data_type = STRING_TYPE
    THEN <<Quote>> \o _sql_injection_proof(parameter_data.value) \o <<Quote>>
    ELSE parameter_data.value

\* The template with every placeholder replaced by its supplied value.
RECURSIVE Substituted(_, _, _)
Substituted(template, schema, supplied) ==
    IF template = <<>> THEN <<>>
    ELSE (IF Head(template) \in DOMAIN PlaceholderName
          THEN ValueAs(schema[PlaceholderName[Head(template)]],
                       supplied[PlaceholderName[Head(template)]])
          ELSE <<Head(template)>>)
         \o Substituted(Tail(template), schema, supplied)

\* C18: a custom_method or questionnaire node compiles only when the supplied
\* parameter names are exactly the declared ones, and its fragment is then
\* the template with each placeholder replaced by the supplied value written
\* as the declared type asks.
C18_PlaceholdersBound ==
    \A t \in Threads : \A k \in 1..Len(results[t]) :
        (results[t][k].ok /\ OneMethod(t)) =>
            LET method == custom_methods[request[t].where_data.cond.template_id]
            IN  /\ DOMAIN SuppliedTo(t) = DOMAIN method.parameters
                /\ results[t][k].where_phrase =
                       Substituted(method.template_str, method.parameters, SuppliedTo(t))


(***************************************************************************)
(* Leaves: is_present.                                                     *)
(***************************************************************************)
\* The phrase of is_present on the column lhs.
PresentPhrase(lhs, present) ==
    IF present
    THEN lhs \o <<"IS", "NOT", "NULL", "and">> \o lhs \o <<"!=", Quote, Quote>>
    ELSE lhs \o <<"IS", "NULL", "or">> \o lhs \o <<"=", Quote, Quote>>

\* C21: a where leaf with operator is_present on a field of the base table,
\* whatever its data type, compiles to the IS NOT NULL phrase when its value
\* is TRUE in any case, to the IS NULL phrase when it is FALSE, and fails on
\* any other value.
C21_IsPresentAnyType ==
    \A t \in Threads : \A k \in 1..Len(results[t]) :
        (/\ OneLeaf(t)
         /\ Lower(request[t].where_data.cond.operator) = "is_present"
         /\ _get_table_name(request[t].where_data.cond.field) = args[t].base_table) =>
            LET cond == request[t].where_data.cond
                lhs == ColumnRef(_get_table_name(cond.field),
                                 field_mapping[cond.field].field_name)
                value == UpperValue(cond.value)
            IN  IF value \in IS_PRESENT_OPERATOR_VALUE
                THEN /\ results[t][k].ok
                     /\ results[t][k].where_phrase =
                            PresentPhrase(lhs, value = <<TRUE_VALUE>>)
                ELSE ~results[t][k].ok


(***************************************************************************)
(* Subquery joins.                                                         *)
(***************************************************************************)
\* The request of thread t references one registered subquery one of whose
\* select fields is under a function outside ALLOWED_AGGREGATE_FUNCTIONS.
UnsupportedSelect(t) ==
    /\ "sub_queries" \in request[t].keys
    /\ Len(request[t].sub_queries) = 1
    /\ request[t].sub_queries[1].unique_id \in DOMAIN subquery_mapping
    /\ LET subquery == subquery_mapping[request[t].sub_queries[1].unique_id]
       IN  /\ ~subquery.subquery_is_sql
           /\ \E i \in 1..Len(subquery.subquery_fields) :
                  /\ "aggregate_lhs" \in subquery.subquery_fields[i].keys
                  /\ subquery.subquery_fields[i].aggregate_lhs # ""
                  /\ Upper(subquery.subquery_fields[i].aggregate_lhs)
                         \notin ALLOWED_AGGREGATE_FUNCTIONS

\* The request of thread t references one registered subquery under an alias,
\* groups nothing, and is on base table A where its own where leaf needs no
\* join; the subquery references no subquery in turn and selects no field
\* under an unsupported function; the tables are as __init__ built them.
OneSubquery(t) ==
    /\ registry = constructed
    /\ ~UnsupportedSelect(t)
    /\ "sub_queries" \in request[t].keys
    /\ "group_by_fields" \notin request[t].keys
    /\ Len(request[t].sub_queries) = 1
    /\ {"unique_id", "alias"} \subseteq request[t].sub_queries[1].keys
    /\ request[t].sub_queries[1].unique_id \in DOMAIN subquery_mapping
    /\ \/ subquery_mapping[request[t].sub_queries[1].unique_id].subquery_is_sql
       \/ SubQueries(subquery_mapping[request[t].sub_queries[1].unique_id]
                         .subquery_template_str) = <<>>
    /\ args[t].base_table = "A"

\* The aliases of the fields marked is_member_id in a field map.
MemberAliases(select_fields) ==
    {select_fields[i].alias : i \in {j \in 1..Len(select_fields) :
                                        select_fields[j].is_member_id}}

\* tokens is LEFT JOIN ( <inner> ) AS alias ON [bq]alias[bq].[bq]join_fld[bq] =
\* [bq]parent_tbl[bq].[bq]id[bq] for some <inner>.
JoinsAs(tokens, alias, join_fld, parent_tbl) ==
    LET tail == <<")", "AS", alias, "ON">> \o ColumnRef(alias, join_fld) \o <<"=">>
                \o ColumnRef(parent_tbl, "id")
    IN  /\ Len(tokens) > Len(tail) + 2
        /\ SubSeq(tokens, 1, 2) = <<"LEFT JOIN", "(">>
        /\ SubSeq(tokens, Len(tokens) - Len(tail) + 1, Len(tokens)) = tail

C23_NoSubqueryReentered ==
    \A t \in Threads : \A i, j \in 1..Len(stack[t]) :
        (i < j /\ stack[t][i].data_ref # "") =>
            stack[t][i].data_ref # stack[t][j].data_ref


(***************************************************************************)
(* Grouping.                                                               *)
(***************************************************************************)
\* The request of thread t has no group_by_fields, or an empty list, and a
\* non-empty having whose leaves all carry aggregate_lhs.
UngroupedHaving(t) ==
    /\ "group_by_fields" \notin request[t].keys \/ request[t].group_by_fields = <<>>
    /\ "having" \in request[t].keys
    /\ request[t].having.kind # "empty"
    /\ \A cond \in LeavesOf(request[t].having) : "aggregate_lhs" \in cond.keys

\* The request of thread t, its having aside, is one that compiles: one leaf
\* on a field of base table A and no subquery.
PlainOnA(t) ==
    /\ request[t].where_data = WhereNode(AgeIsOne)
    /\ request[t].fields \in {<<>>, <<"f1">>}
    /\ "sub_queries" \notin request[t].keys
    /\ args[t].base_table = "A"

Tokens(sql) == {sql[i] : i \in 1..Len(sql)}

\* C24: a compiled statement holds HAVING only after GROUP BY; a request
\* without group_by_fields, or with an empty list, whose non-empty having
\* passes validation compiles without error to a statement with neither.
C24_HavingOnlyWithGroupBy ==
    \A t \in Threads : \A k \in 1..Len(results[t]) :
        /\ (results[t][k].ok /\ "HAVING" \in Tokens(results[t][k].sql)) =>
               /\ results[t][k].group_by_phrase # <<>>
               /\ Head(results[t][k].group_by_phrase) = "GROUP BY"
        /\ (UngroupedHaving(t) /\ PlainOnA(t)) => results[t][k].ok
        /\ (UngroupedHaving(t) /\ results[t][k].ok) =>
               /\ results[t][k].group_by_phrase = <<>>
               /\ {"HAVING", "GROUP BY"} \cap Tokens(results[t][k].sql) = {}

\* A request with a non-empty having and no grouping has compiled.
C24_HavingDropped ==
    \E k \in 1..Len(results[1]) : UngroupedHaving(1) /\ results[1][k].ok


\* The request of thread t is grouped by f1 and its having is one leaf on f1
\* under a function outside ALLOWED_AGGREGATE_FUNCTIONS.
UnsupportedHaving(t) ==
    /\ "group_by_fields" \in request[t].keys
    /\ request[t].group_by_fields # <<>>
    /\ "having" \in request[t].keys
    /\ request[t].having.kind = WHERE_CONDITION
    /\ request[t].having.cond.field = "f1"
    /\ "aggregate_lhs" \in request[t].having.cond.keys
    /\ request[t].having.cond.aggregate_lhs # ""
    /\ Upper(request[t].having.cond.aggregate_lhs) \notin ALLOWED_AGGREGATE_FUNCTIONS

\* C25: the first call on a request grouped by f1 whose having is one leaf
\* under an unsupported function compiles, and the leaf is rendered on the
\* bare column after HAVING, with no function call; a request that references
\* a subquery with a select field under an unsupported function fails.
C25_UnsupportedAggregateIgnored ==
    \A t \in Threads : \A k \in 1..Len(results[t]) :
        /\ (UnsupportedHaving(t) /\ PlainOnA(t) /\ k = 1) => results[t][k].ok
        /\ (UnsupportedHaving(t) /\ results[t][k].ok) =>
               LET phrase == results[t][k].group_by_phrase
                   lhs == ColumnRef("A", "age")
               IN  /\ Len(phrase) > 2 * Len(lhs) + 2
                   /\ SubSeq(phrase, Len(lhs) + 2, 2 * Len(lhs) + 2) = <<"HAVING">> \o lhs
                   /\ ~\E i \in 1..(Len(phrase) - 1) :
                          phrase[i] = Upper(request[t].having.cond.aggregate_lhs)
                          /\ phrase[i + 1] = "("
        /\ UnsupportedSelect(t) => ~results[t][k].ok

\* A call with a having leaf under an unsupported function has returned a
\* statement.
C25_UnsupportedHavingCompiled ==
    \E k \in 1..Len(results[1]) : UnsupportedHaving(1) /\ results[1][k].ok


\* What _process_parameter binds to a name: the text None for a missing or
\* empty value, else the value written as its declared type asks.
BoundAs(data_type, parameter_data) ==
    IF parameter_data.value = <<>> THEN <<"None">> ELSE ValueAs(data_type, parameter_data)

\* The template with every placeholder replaced by what its name is bound to.
RECURSIVE Interpolated(_, _, _)
Interpolated(template, schema, supplied) ==
    IF template = <<>> THEN <<>>
    ELSE (IF Head(template) \in DOMAIN PlaceholderName
          THEN BoundAs(schema[PlaceholderName[Head(template)]],
                       supplied[PlaceholderName[Head(template)]])
          ELSE <<Head(template)>>)
         \o Interpolated(Tail(template), schema, supplied)

\* The parameters supplied to the custom method node of thread t are the
\* declared ones, at least one of them with a missing or empty value.
SuppliedEmpty(t) ==
    /\ OneMethod(t)
    /\ DOMAIN SuppliedTo(t) =
           DOMAIN custom_methods[request[t].where_data.cond.template_id].parameters
    /\ \E n \in DOMAIN SuppliedTo(t) : SuppliedTo(t)[n].value = <<>>

\* C26: a custom method node whose declared parameters are all supplied, some
\* with a missing or empty value, compiles whatever the declared type of those
\* when every parameter has a missing or empty value, and whenever it compiles
\* its fragment is the template with the text None at the placeholders of the
\* parameters without a value.
C26_EmptyValueBindsNone ==
    \A t \in Threads : \A k \in 1..Len(results[t]) :
        SuppliedEmpty(t) =>
            LET method == custom_methods[request[t].where_data.cond.template_id]
            IN  /\ (\A n \in DOMAIN SuppliedTo(t) : SuppliedTo(t)[n].value = <<>>) =>
                       results[t][k].ok
                /\ results[t][k].ok =>
                       /\ results[t][k].where_phrase =
                              Interpolated(method.template_str, method.parameters,
                                           SuppliedTo(t))
                       /\ "None" \in Tokens(results[t][k].where_phrase)

\* A custom method node with a parameter supplied without a value has
\* compiled.
C26_NoneInterpolated ==
    \E k \in 1..Len(results[1]) : SuppliedEmpty(1) /\ results[1][k].ok

====
